---- MODULE Spec2Model ----
(***************************************************************************)
(* A model of ultron's autonomous investigation core:                      *)
(*   - the sandbox path resolver and the four file tools of                *)
(*     AutonomousAgent (src/ultron/autonomous/agent.py),                   *)
(*   - the turn loop AutonomousAgent.run,                                  *)
(*   - the shell tool execute_shell_command                                *)
(*     (src/ultron/autonomous/tools/shell.py),                             *)
(*   - the result cache (src/ultron/caching.py),                           *)
(*   - the single-shot parse path and clean_json_response                  *)
(*     (src/ultron/reviewer.py),                                           *)
(*   - the backend call of get_gemini_review and the cache use of the      *)
(*     review command (src/ultron/main_cli.py),                            *)
(*   - get_cache_key, search_codebase and find_taints_in_file              *)
(*     (src/ultron/autonomous/tools.py) as pure functions,                 *)
(*   - the read tool and the run loop of DeepDiveAgent                     *)
(*     (src/ultron/agent.py).                                              *)
(* Console output (rich panels, token counters) is not modelled; model     *)
(* responses are taken to carry their usage metadata.                      *)
(***************************************************************************)
EXTENDS Integers, Sequences, FiniteSets, TLC

VARIABLES
    \* ---- AutonomousAgent.run ----
    max_turns,      \* the max_turns argument of run
    turn,           \* iterations of the for loop started so far
    chat_history,   \* the chat_history list
    final_report,   \* the final_report local
    pc,             \* where run is: "AWAITING_MODEL", "TOOL_DISPATCH",
                    \* "TERMINATED" (returned), "RAISED"; "NO_SESSION"
    pending,        \* tool_call_part of the reply being handled
    returned,       \* the value run returned
    exception,      \* the exception that left run
    requests,       \* generate_content calls issued             (ghost)
    dispatches,     \* tool observations produced                (ghost)
    last_response,  \* the response handled by the last turn     (ghost)
    only_calls,     \* every response so far held a tool call    (ghost)
    \* ---- the tool handler calls of the last turn ----
    invoked,        \* the handlers entered, with their arguments, in order
    resolution,     \* what _resolve_and_validate_path gave it
    tool_outcome,   \* what the handler returned (or raised)
    fs_log,         \* filesystem operations of that call, in order
    \* ---- execute_shell_command ----
    sh_pc,          \* "IDLE", "COMMUNICATE", "KILL", "WAIT", "RETURNED"
    sh_call,        \* the command and working_directory arguments
    sh_procs,       \* processes started by the command that are running
    sh_spawned,     \* processes started by the command so far   (ghost)
    sh_timed_out,   \* communicate() raised TimeoutExpired       (ghost)
    sh_result,      \* the text the tool returned
    \* ---- the result cache ----
    clock,          \* wall-clock time, in seconds
    cwd_mtime,      \* st_mtime of the working directory
    cache_dir,      \* the inode the cache file's name refers to, 0 if none
    inodes,         \* content and st_mtime of each inode
    sess,           \* each session's call of save_to_cache / load_from_cache
    saw_partial,    \* a load read a file that a save had open  (ghost)
    deleted_midwrite, \* a load unlinked a file a save had open (ghost)
    \* ---- get_gemini_review, from the response text on ----
    pr_pc,          \* "idle", "parse", "clean", "parse_cleaned", "returned"
                    \* ("raised": an exception left get_gemini_review)
    raw_json_text,  \* the text of the response
    cleaned_json,   \* what clean_json_response made of it
    review,         \* the result returned
    cleanings,      \* calls of clean_json_response             (ghost)
    backend,        \* what the backend call gave               (ghost)
    \* ---- review_code_command, its cache use ----
    cli,            \* where the command is, its options, its cache writes
    \* ---- search_codebase, find_taints_in_file, get_cache_key ----
    fn_call,        \* the function called and its arguments
    fn_result,      \* what it returned
    \* ---- DeepDiveAgent.run ----
    dd              \* the loop's locals and what run returned

loop_vars == <<max_turns, turn, chat_history, final_report, pc, pending,
               returned, exception, requests, dispatches, last_response,
               only_calls>>
tool_vars == <<invoked, resolution, tool_outcome, fs_log>>
shell_vars == <<sh_pc, sh_call, sh_procs, sh_spawned, sh_timed_out, sh_result>>
cache_vars == <<clock, cwd_mtime, cache_dir, inodes, sess, saw_partial,
                deleted_midwrite>>
parse_vars == <<pr_pc, raw_json_text, cleaned_json, review, cleanings, backend,
                cli>>
aux_vars == <<fn_call, fn_result, dd>>
ext_vars == <<shell_vars, cache_vars, parse_vars, aux_vars>>
vars == <<loop_vars, tool_vars, ext_vars>>

\* the shell tool before it is called
ShellIdle ==
    /\ sh_pc = "IDLE"
    /\ sh_call = [command |-> "none"]
    /\ sh_procs = {}
    /\ sh_spawned = {}
    /\ sh_timed_out = FALSE
    /\ sh_result = <<>>

\* the cache before any call: no file, no call in progress
CacheIdle ==
    /\ clock = 0
    /\ cwd_mtime = 0
    /\ cache_dir = 0
    /\ inodes = [i \in 1..3 |-> [content |-> <<>>, mtime |-> 0]]
    /\ sess = [s \in {1, 2} |->
                 [pc |-> "idle", op |-> "none",
                  payload |-> [summary |-> "", vulns |-> 0, error |-> "None"],
                  fd |-> 0, off |-> 0, at |-> 0,
                  result |-> [kind |-> "none",
                              data |-> [summary |-> "", vulns |-> 0, error |-> "None"]],
                  exc |-> "none",
                  before |-> [exists |-> FALSE, content |-> <<>>, mtime |-> 0],
                  after |-> [exists |-> FALSE, content |-> <<>>, mtime |-> 0]]]
    /\ saw_partial = FALSE
    /\ deleted_midwrite = FALSE

\* no response text received yet
ParseIdle ==
    /\ pr_pc = "idle"
    /\ raw_json_text = <<>>
    /\ cleaned_json = <<>>
    /\ review = [kind |-> "none", via |-> "none", doc |-> <<>>,
                 error |-> "None", audit |-> <<>>]
    /\ cleanings = 0
    /\ backend = "none"
    /\ cli = [pc |-> "idle", no_cache |-> FALSE, cache_key_str |-> "",
              exc |-> "none", saved |-> {}]

\* no function called, no deep dive started
AuxIdle ==
    /\ fn_call = [name |-> "none"]
    /\ fn_result = [kind |-> "none"]
    /\ dd = [pc |-> "idle", max_steps |-> 0, step |-> 0, sent |-> 0,
             dispatched |-> 0, inspected |-> 0, all_calls |-> TRUE,
             response |-> [kind |-> "none"],
             returned |-> [kind |-> "none"], caught |-> "none"]

ExtIdle == ShellIdle /\ CacheIdle /\ ParseIdle /\ AuxIdle

(***************************************************************************)
(* Bounds of the model.                                                    *)
(***************************************************************************)
MaxTurns == 2
MaxParts == 2
MaxPathLen == 2

(***************************************************************************)
(* Strings as character sequences, where the code looks inside them.       *)
(***************************************************************************)
NameChars(n) ==
    CASE n = "proj"   -> <<"p","r","o","j">>
      [] n = "proj2"  -> <<"p","r","o","j","2">>
      [] n = "etc"    -> <<"e","t","c">>
      [] n = "src"    -> <<"s","r","c">>
      [] n = "a.py"   -> <<"a",".","p","y">>
      [] n = "readme" -> <<"r","e","a","d","m","e">>
      [] n = "empty"  -> <<"e","m","p","t","y">>
      [] n = "in"     -> <<"i","n">>
      [] n = "out"    -> <<"o","u","t">>
      [] n = "sib"    -> <<"s","i","b">>
      [] n = "dsib"   -> <<"d","s","i","b">>
      [] n = "secret" -> <<"s","e","c","r","e","t">>
      [] n = "passwd" -> <<"p","a","s","s","w","d">>
      [] n = "nope"   -> <<"n","o","p","e">>
      [] n = ".."     -> <<".",".">>
      [] n = "."      -> <<".">>

StartsWith(s, prefix) ==
    /\ Len(s) >= Len(prefix)
    /\ SubSeq(s, 1, Len(prefix)) = prefix

EndsWith(s, suffix) ==
    /\ Len(s) >= Len(suffix)
    /\ SubSeq(s, Len(s) - Len(suffix) + 1, Len(s)) = suffix

\* str(path) of an absolute path given as its sequence of names
RECURSIVE PathStr(_)
PathStr(p) ==
    IF p = <<>> THEN <<>>
    ELSE PathStr(SubSeq(p, 1, Len(p) - 1)) \o <<"/">> \o NameChars(p[Len(p)])

(***************************************************************************)
(* The filesystem the session runs on.  Absolute canonical paths are       *)
(* sequences of names; <<>> is "/".                                        *)
(***************************************************************************)
FsDirs == { <<>>, <<"proj">>, <<"proj","src">>, <<"proj","empty">>,
            <<"proj2">>, <<"etc">> }
FsFiles == { <<"proj","src","a.py">>, <<"proj","readme">>,
             <<"proj2","secret">>, <<"etc","passwd">> }
FsLinks == { <<"proj","in">>, <<"proj","out">>, <<"proj","sib">>,
             <<"proj","dsib">> }
LinkTarget(p) ==
    CASE p = <<"proj","in">>   -> <<"proj","readme">>
      [] p = <<"proj","out">>  -> <<"etc","passwd">>
      [] p = <<"proj","sib">>  -> <<"proj2","secret">>
      [] p = <<"proj","dsib">> -> <<"proj2">>

\* self.codebase_path: the resolved project root
codebase_path == <<"proj">>

IsPrefixPath(root, p) ==
    /\ Len(p) >= Len(root)
    /\ SubSeq(p, 1, Len(root)) = root

Parent(p) == IF p = <<>> THEN <<>> ELSE SubSeq(p, 1, Len(p) - 1)

DirEntries(d) == { p[Len(p)] : p \in { q \in FsDirs \cup FsFiles \cup FsLinks :
                                        q # <<>> /\ Parent(q) = d } }

(***************************************************************************)
(* Argument values as the model backend can send them.  A path string is   *)
(* kept as its leading-slash flag and its "/"-separated segments.          *)
(***************************************************************************)
PathVal(a, ss) == [t |-> "path", abs |-> a, segs |-> ss]
TextVal(x) == [t |-> "text", s |-> x]
ListVal(x) == [t |-> "list", items |-> x]
IntVal == [t |-> "int"]

IsStr(v) == v.t \in {"path", "text"}

\* Path(file_path).parts without the anchor: pathlib drops "." segments
PathParts(fp) == SelectSeq(fp.segs, LAMBDA s : s # ".")

HasSegment(ss, x) == \E i \in 1..Len(ss) : ss[i] = x

\* Path.resolve() of codebase_path / file_path: symlinks are followed, ".."
\* goes to the parent, names that do not exist are kept as they are
RECURSIVE Realpath(_, _)
Realpath(cur, ss) ==
    IF ss = <<>> THEN cur
    ELSE IF Head(ss) = ".." THEN Realpath(Parent(cur), Tail(ss))
    ELSE IF Append(cur, Head(ss)) \in FsLinks
         THEN Realpath(Realpath(<<>>, LinkTarget(Append(cur, Head(ss)))), Tail(ss))
    ELSE Realpath(Append(cur, Head(ss)), Tail(ss))

(***************************************************************************)
(* sorted(contents): names in the order of Python's string comparison.     *)
(***************************************************************************)
Alphabet == <<".", "/", "2", "a", "b", "c", "d", "e", "i", "j", "m", "n",
              "o", "p", "r", "s", "t", "u", "w", "y">>
CharCode(c) == CHOOSE i \in 1..Len(Alphabet) : Alphabet[i] = c

RECURSIVE LexLess(_, _)
LexLess(a, b) ==
    IF b = <<>> THEN FALSE
    ELSE IF a = <<>> THEN TRUE
    ELSE IF Head(a) = Head(b) THEN LexLess(Tail(a), Tail(b))
    ELSE CharCode(Head(a)) < CharCode(Head(b))

MinName(S) ==
    CHOOSE x \in S : \A y \in S \ {x} : LexLess(NameChars(x), NameChars(y))

RECURSIVE SortedNames(_)
SortedNames(S) ==
    IF S = {} THEN <<>>
    ELSE <<MinName(S)>> \o SortedNames(S \ {MinName(S)})

\* lines 111 and 121: contents_str, the sorted names or the words for none
ContentsStr(S) == IF S = {} THEN <<"It is empty.">> ELSE SortedNames(S)

\* src/ultron/agent.py line 43: the slice [:10000]
MaxReadChars == 10000

\* the number of characters that f.read() gives for a file
FileChars(p) ==
    IF p = <<"proj","src","a.py">> THEN MaxReadChars + 1 ELSE 3

(***************************************************************************)
(* AutonomousAgent._resolve_and_validate_path                              *)
(***************************************************************************)
NoError == [kind |-> "none"]
FsOp(o, p) == [op |-> o, path |-> p]

Resolved(st, p, e, x, l) ==
    [status |-> st, path |-> p, error |-> e, exc |-> x, log |-> l]

\* the check of line 96 without its '..' test
EarlyReject_AbsoluteOnly(fp) == fp.abs

\* line 96: the check made before anything is looked up
EarlyReject(fp) == HasSegment(PathParts(fp), "..") \/ fp.abs

\* line 101: the string-prefix test of the resolved path against the root
InsideRoot(absolute_path) ==
    StartsWith(PathStr(absolute_path), PathStr(codebase_path))

\* the directory answered with the words for a missing path
DirectoryCase_NotFound(fp, absolute_path, log) ==
    Resolved("error", <<>>, [kind |-> "directory_missing", file_path |-> fp,
                             parent |-> <<>>],
             "none", log)

\* lines 108-114: the path is a directory
DirectoryCase(fp, absolute_path, log) ==
    Resolved("error", <<>>,
             [kind |-> "is_directory", file_path |-> fp,
              contents |-> ContentsStr(DirEntries(absolute_path))],
             "none",
             log \o <<FsOp("iterdir", absolute_path)>>)

\* lines 116-129: the path does not exist; its parent is looked at
RelativeToRoot(p) == SubSeq(p, Len(codebase_path) + 1, Len(p))

MissingCase(fp, parent_dir, log) ==
    IF parent_dir \in FsDirs
    THEN IF IsPrefixPath(codebase_path, parent_dir)
         THEN Resolved("error", <<>>,
                [kind |-> "not_found", file_path |-> fp,
                 parent |-> RelativeToRoot(parent_dir),
                 contents |-> ContentsStr(DirEntries(parent_dir))],
                "none",
                log \o <<FsOp("is_dir", parent_dir), FsOp("iterdir", parent_dir)>>)
         \* relative_to raises ValueError inside the try block
         ELSE Resolved("error", <<>>,
                [kind |-> "parent_unreadable", file_path |-> fp],
                "none",
                log \o <<FsOp("is_dir", parent_dir), FsOp("iterdir", parent_dir)>>)
    ELSE IF IsPrefixPath(codebase_path, parent_dir)
         THEN Resolved("error", <<>>,
                [kind |-> "directory_missing", file_path |-> fp,
                 parent |-> RelativeToRoot(parent_dir)],
                "none", log \o <<FsOp("is_dir", parent_dir)>>)
         \* line 128: relative_to raises ValueError outside any try block
         ELSE Resolved("raised", <<>>, NoError, "ValueError",
                       log \o <<FsOp("is_dir", parent_dir)>>)

\* lines 101-129, with absolute_path the resolved path
ValidateResolved(fp, absolute_path, log) ==
    IF ~InsideRoot(absolute_path)
    THEN Resolved("error", <<>>, [kind |-> "traversal_attempt"], "none", log)
    ELSE IF absolute_path \in FsFiles
    THEN Resolved("ok", absolute_path, NoError, "none",
                  log \o <<FsOp("is_file", absolute_path)>>)
    ELSE IF absolute_path \in FsDirs
    THEN DirectoryCase(fp, absolute_path,
                       log \o <<FsOp("is_file", absolute_path),
                                FsOp("is_dir", absolute_path)>>)
    ELSE MissingCase(fp, Parent(absolute_path),
                     log \o <<FsOp("is_file", absolute_path),
                              FsOp("is_dir", absolute_path)>>)

\* lines 94-129
ResolveAndValidatePath(fp) ==
    IF ~IsStr(fp)
    \* Path(file_path) of a value that is no string
    THEN Resolved("raised", <<>>, NoError, "TypeError", <<>>)
    ELSE IF EarlyReject(fp)
    THEN Resolved("error", <<>>, [kind |-> "traversal_or_absolute"], "none", <<>>)
    ELSE ValidateResolved(fp, Realpath(codebase_path, PathParts(fp)),
                          <<FsOp("resolve", codebase_path \o PathParts(fp))>>)

(***************************************************************************)
(* The four file tool handlers of AutonomousAgent.  Each gives the         *)
(* resolution it obtained, what it returned or raised, and the filesystem  *)
(* operations it made, in order.                                           *)
(***************************************************************************)
Handled(r, st, res, x, l) ==
    [resolution |-> r, status |-> st, result |-> res, exc |-> x, log |-> l]

\* "if error: return error", and an exception of the resolver passing through
Refused(r) ==
    IF r.status = "raised"
    THEN Handled(r, "raised", NoError, r.exc, r.log)
    ELSE Handled(r, "returned", r.error, "none", r.log)

\* the handler without "if error: return error", opening the joined path
ReadResolved_Unchecked(r) ==
    Handled(r, "returned",
            [kind |-> "file_content", path |-> r.path, chars |-> FileChars(r.path)],
            "none", r.log \o <<FsOp("open", r.path)>>)

\* lines 134-141, with r the resolution; f.read() gives the whole file
ReadResolved(r) ==
    IF r.status # "ok" THEN Refused(r)
    ELSE Handled(r, "returned",
                 [kind |-> "file_content", path |-> r.path,
                  chars |-> FileChars(r.path)],
                 "none", r.log \o <<FsOp("open", r.path)>>)

\* lines 131-141
ReadFileContent(args) == ReadResolved(ResolveAndValidatePath(args.file_path))

\* tools.py search_pattern_in_file: re.search on a pattern that is no string
\* raises inside the try block
SearchPatternInFile(path, regex_pattern) ==
    IF IsStr(regex_pattern)
    THEN [kind |-> "search_result", path |-> path, pattern |-> regex_pattern]
    ELSE [kind |-> "search_error", path |-> path]

SearchResolved(r, regex_pattern) ==
    IF r.status # "ok" THEN Refused(r)
    ELSE Handled(r, "returned", SearchPatternInFile(r.path, regex_pattern),
                 "none", r.log \o <<FsOp("open", r.path)>>)

\* lines 145-151
SearchPattern(args) ==
    SearchResolved(ResolveAndValidatePath(args.file_path), args.regex_pattern)

\* tools.py list_functions_in_file: a name not ending in ".py" is refused
\* before the file is opened
IsPythonFile(path) == EndsWith(PathStr(path), <<".", "p", "y">>)

ListResolved(r) ==
    IF r.status # "ok" THEN Refused(r)
    ELSE IF ~IsPythonFile(r.path)
    THEN Handled(r, "returned", [kind |-> "not_python"], "none", r.log)
    ELSE Handled(r, "returned", [kind |-> "functions", path |-> r.path],
                 "none", r.log \o <<FsOp("open", r.path)>>)

\* lines 153-159
ListFunctions(args) == ListResolved(ResolveAndValidatePath(args.file_path))

\* tools.py find_taints_in_file: iterating keywords that are no list raises
\* inside the try block
FindTaintsInFile(path, sources, sinks) ==
    IF sources.t = "int" \/ sinks.t = "int"
    THEN [kind |-> "taint_error", path |-> path]
    ELSE [kind |-> "taint_result", path |-> path,
          sources |-> sources, sinks |-> sinks]

TaintResolved(r, sources, sinks) ==
    IF r.status # "ok" THEN Refused(r)
    ELSE Handled(r, "returned", FindTaintsInFile(r.path, sources, sinks),
                 "none", r.log \o <<FsOp("open", r.path)>>)

\* lines 161-167
FindTaintSourcesAndSinks(args) ==
    TaintResolved(ResolveAndValidatePath(args.file_path), args.sources, args.sinks)

\* lines 81-86: self.tool_handlers
ToolNames == {"read_file_content", "search_pattern", "list_functions",
              "find_taint_sources_and_sinks"}

\* the parameters each handler declares
Params(name) ==
    CASE name = "read_file_content" -> {"file_path"}
      [] name = "search_pattern" -> {"file_path", "regex_pattern"}
      [] name = "list_functions" -> {"file_path"}
      [] name = "find_taint_sources_and_sinks" -> {"file_path", "sources", "sinks"}

RunHandler(name, args) ==
    CASE name = "read_file_content" -> ReadFileContent(args)
      [] name = "search_pattern" -> SearchPattern(args)
      [] name = "list_functions" -> ListFunctions(args)
      [] name = "find_taint_sources_and_sinks" -> FindTaintSourcesAndSinks(args)

(***************************************************************************)
(* Model responses.  A reply is the part list of candidates[0].content;    *)
(* a backend failure has no candidate, or a candidate without content.     *)
(***************************************************************************)
TextPart(x) == [kind |-> "text", text |-> x]
CallPart(n, a) == [kind |-> "call", name |-> n, args |-> a]
Reply(ps) == [kind |-> "reply", parts |-> ps]
EmptyCandidates == [kind |-> "empty_candidates"]
BlockedContent == [kind |-> "blocked_content"]

\* str.strip() on a text of blanks and letters
RECURSIVE LStrip(_)
LStrip(x) == IF x # <<>> /\ Head(x) = " " THEN LStrip(Tail(x)) ELSE x
RECURSIVE RStrip(_)
RStrip(x) ==
    IF x # <<>> /\ x[Len(x)] = " " THEN RStrip(SubSeq(x, 1, Len(x) - 1)) ELSE x
Strip(x) == RStrip(LStrip(x))

IsTextPart(p) == p.kind = "text" /\ p.text # <<>> /\ Strip(p.text) # <<>>
IsCallPart(p) == p.kind = "call"

\* line 328: all_text_parts
RECURSIVE AllTextParts(_)
AllTextParts(ps) ==
    IF ps = <<>> THEN <<>>
    ELSE (IF IsTextPart(Head(ps)) THEN <<Strip(Head(ps).text)>> ELSE <<>>)
         \o AllTextParts(Tail(ps))

\* a function call looked for in the first part only
HasCall_FirstPartOnly(ps) == ps # <<>> /\ IsCallPart(ps[1])

\* lines 329 and 340: some part holds a function call
HasCall(ps) == \E i \in 1..Len(ps) : IsCallPart(ps[i])

\* line 329: tool_call_part, the first part with a function call
ToolCallPart(ps) ==
    ps[CHOOSE i \in 1..Len(ps) :
          IsCallPart(ps[i]) /\ \A j \in 1..(i - 1) : ~IsCallPart(ps[j])]

NoneVal == [kind |-> "None"]
TextReport(x) == [kind |-> "text", text |-> x]
\* line 367
NoTextReport == [kind |-> "Agent finished without a textual report."]
\* line 370
MaxTurnsReport ==
    [kind |-> "Agent reached maximum turns without providing a final report."]

\* lines 362-367
\* the report taken from the first text part instead of the last
ReportOf_First(all_text_parts) ==
    IF Len(all_text_parts) > 0 THEN TextReport(all_text_parts[1])
    ELSE NoTextReport

ReportOf(all_text_parts) ==
    IF Len(all_text_parts) > 1 THEN TextReport(all_text_parts[Len(all_text_parts)])
    ELSE IF Len(all_text_parts) > 0 THEN TextReport(all_text_parts[1])
    ELSE NoTextReport

FinalReport(ps) == ReportOf(AllTextParts(ps))

\* the return of line 370 without its "or" operand
ReturnValue_NoDefault(fr) == fr

\* line 370: final_report or the max-turns text
ReturnValue(fr) ==
    IF fr = NoneVal \/ fr = TextReport(<<>>) THEN MaxTurnsReport ELSE fr

UserContent == [role |-> "user", parts |-> <<[kind |-> "initial_prompt"]>>]
ModelContent(ps) == [role |-> "model", parts |-> ps]
\* lines 356, 358
ToolContent(fn_name, result) ==
    [role |-> "tool",
     parts |-> <<[kind |-> "function_response", name |-> fn_name,
                  response |-> result]>>]

\* an observation that does not say which tool was asked for
ToolNotFound_Unnamed(fn_name) == [kind |-> "tool_not_found", name |-> "?"]

\* line 351
ToolNotFound(fn_name) == [kind |-> "tool_not_found", name |-> fn_name]

NoResolution == Resolved("none", <<>>, NoError, "none", <<>>)
NoOutcome == [status |-> "none", result |-> NoError, exc |-> "none"]
Outcome(h) == [status |-> h.status, result |-> h.result, exc |-> h.exc]

(***************************************************************************)
(* Tool dispatch, lines 341-351.  fn.args is kept as its items, a sequence *)
(* of <<key, value>> pairs with distinct keys.                             *)
(***************************************************************************)
Keys(items) == { items[i][1] : i \in 1..Len(items) }
ValueOf(items, k) == items[CHOOSE i \in 1..Len(items) : items[i][1] = k][2]
\* tool_func(**fn_args), once the keys are the handler's parameters
Bind(items) == [k \in Keys(items) |-> ValueOf(items, k)]

Dispatched(st, res, x, inv, r, l) ==
    [status |-> st, result |-> res, exc |-> x, invoked |-> inv,
     resolution |-> r, log |-> l]

\* line 349, with h what the handler gave
HandlerDispatched(fn_name, kwargs, h) ==
    Dispatched(IF h.status = "raised" THEN "raised" ELSE "observed",
               h.result, h.exc, <<[name |-> fn_name, args |-> kwargs]>>,
               h.resolution, h.log)

\* lines 347-351
Dispatch(fn_name, fn_args) ==
    IF fn_name \in ToolNames
    THEN IF Keys(fn_args) # Params(fn_name)
         \* missing or unexpected keyword argument
         THEN Dispatched("raised", NoError, "TypeError", <<>>, NoResolution, <<>>)
         ELSE HandlerDispatched(fn_name, Bind(fn_args),
                                RunHandler(fn_name, Bind(fn_args)))
    ELSE Dispatched("observed", ToolNotFound(fn_name), "none", <<>>,
                    NoResolution, <<>>)

\* the tool response left out of the history
AppendTurn_ModelOnly(history, content, fn_name, result) ==
    Append(history, content)

\* lines 357-358
AppendTurn(history, content, fn_name, result) ==
    history \o <<content, ToolContent(fn_name, result)>>

(***************************************************************************)
(* What the model backend is taken to send.                                *)
(***************************************************************************)
ReplyTexts == { <<" ">>, <<"a">>, <<" ", "b", " ">> }

Readme == PathVal(FALSE, <<"readme">>)
ReplyCalls ==
    { CallPart("read_file_content", << <<"file_path", Readme>> >>),
      CallPart("run_shell", << <<"command", TextVal("id")>> >>),
      \* a required key is missing
      CallPart("read_file_content", <<>>),
      \* an unexpected key
      CallPart("list_functions",
               << <<"file_path", Readme>>, <<"regex_pattern", TextVal("eval")>> >>),
      \* wrongly typed values
      CallPart("read_file_content", << <<"file_path", IntVal>> >>),
      CallPart("search_pattern",
               << <<"file_path", Readme>>, <<"regex_pattern", IntVal>> >>) }

ReplyParts == { TextPart(x) : x \in ReplyTexts } \cup ReplyCalls

SeqsUpTo(S, n) == UNION { [1..k -> S] : k \in 0..n }

Replies == SeqsUpTo(ReplyParts, MaxParts)

NoCall == [kind |-> "none"]
NoResponse == [kind |-> "none"]

(***************************************************************************)
(* AutonomousAgent.run                                                     *)
(***************************************************************************)
Init ==
    /\ max_turns \in 0..MaxTurns
    /\ turn = 0
    /\ chat_history = <<UserContent>>
    /\ final_report = NoneVal
    /\ pc = "AWAITING_MODEL"
    /\ pending = NoCall
    /\ returned = NoneVal
    /\ exception = "none"
    /\ requests = 0
    /\ dispatches = 0
    /\ last_response = NoResponse
    /\ only_calls = TRUE
    /\ invoked = <<>>
    /\ resolution = NoResolution
    /\ tool_outcome = NoOutcome
    /\ fs_log = <<>>
    /\ ExtIdle

ToolsIdle ==
    /\ invoked' = <<>>
    /\ resolution' = NoResolution
    /\ tool_outcome' = NoOutcome
    /\ fs_log' = <<>>

\* lines 272-329 and 340: the reply holds a function call
ReceiveToolCall(ps) ==
    /\ pc = "AWAITING_MODEL"
    /\ turn < max_turns
    /\ HasCall(ps)
    /\ turn' = turn + 1
    /\ requests' = requests + 1
    /\ last_response' = Reply(ps)
    /\ pending' = ToolCallPart(ps)
    /\ pc' = "TOOL_DISPATCH"
    /\ ToolsIdle
    /\ UNCHANGED <<max_turns, chat_history, final_report, returned, exception,
                   dispatches, only_calls>>
    /\ UNCHANGED ext_vars

\* lines 272-329, 360-368 and 370: the reply holds no function call
ReceiveFinal(ps) ==
    /\ pc = "AWAITING_MODEL"
    /\ turn < max_turns
    /\ ~HasCall(ps)
    /\ turn' = turn + 1
    /\ requests' = requests + 1
    /\ last_response' = Reply(ps)
    /\ only_calls' = FALSE
    /\ final_report' = FinalReport(ps)
    /\ returned' = ReturnValue(FinalReport(ps))
    /\ pc' = "TERMINATED"
    /\ ToolsIdle
    /\ UNCHANGED <<max_turns, chat_history, pending, exception, dispatches>>
    /\ UNCHANGED ext_vars

\* lines 325-326: response.candidates[0] of an empty list raises IndexError,
\* .parts of a candidate without content raises AttributeError
ReceiveFailure(resp) ==
    /\ pc = "AWAITING_MODEL"
    /\ turn < max_turns
    /\ turn' = turn + 1
    /\ requests' = requests + 1
    /\ last_response' = resp
    /\ only_calls' = FALSE
    /\ exception' = (IF resp = EmptyCandidates THEN "IndexError" ELSE "AttributeError")
    /\ pc' = "RAISED"
    /\ ToolsIdle
    /\ UNCHANGED <<max_turns, chat_history, final_report, pending, returned,
                   dispatches>>
    /\ UNCHANGED ext_vars

\* lines 340-358
Dispatching(d) ==
    /\ invoked' = d.invoked
    /\ resolution' = d.resolution
    /\ tool_outcome' = [status |-> d.status, result |-> d.result, exc |-> d.exc]
    /\ fs_log' = d.log
    /\ IF d.status = "raised"
       THEN /\ pc' = "RAISED"
            /\ exception' = d.exc
            /\ UNCHANGED <<chat_history, dispatches>>
       ELSE /\ pc' = "AWAITING_MODEL"
            /\ chat_history' = AppendTurn(chat_history,
                                          ModelContent(last_response.parts),
                                          pending.name, d.result)
            /\ dispatches' = dispatches + 1
            /\ UNCHANGED exception

DispatchTool ==
    /\ pc = "TOOL_DISPATCH"
    /\ Dispatching(Dispatch(pending.name, pending.args))
    /\ pending' = NoCall
    /\ UNCHANGED <<max_turns, turn, final_report, returned, requests,
                   last_response, only_calls>>
    /\ UNCHANGED ext_vars

\* line 272 with the range used up, then line 370
Exhausted ==
    /\ pc = "AWAITING_MODEL"
    /\ turn = max_turns
    /\ returned' = ReturnValue(final_report)
    /\ pc' = "TERMINATED"
    /\ UNCHANGED <<max_turns, turn, chat_history, final_report, pending, exception,
                   requests, dispatches, last_response, only_calls>>
    /\ UNCHANGED tool_vars
    /\ UNCHANGED ext_vars

Next ==
    \/ \E ps \in Replies : ReceiveToolCall(ps)
    \/ \E ps \in Replies : ReceiveFinal(ps)
    \/ \E resp \in {EmptyCandidates, BlockedContent} : ReceiveFailure(resp)
    \/ DispatchTool
    \/ Exhausted

Spec == Init /\ [][Next]_vars

(***************************************************************************)
(* The file tools called one at a time, on every path the model backend    *)
(* can name: any sequence of up to MaxPathLen segments, with or without a  *)
(* leading slash, and a value that is no string.                           *)
(***************************************************************************)
RawSegs == {"src", "a.py", "readme", "empty", "in", "out", "sib", "dsib",
            "secret", "nope", "..", "."}

InputPaths == { PathVal(a, ss) : a \in BOOLEAN, ss \in SeqsUpTo(RawSegs, MaxPathLen) }

FilePathValues == InputPaths \cup {IntVal}
PatternValues == {TextVal("eval"), IntVal}
KeywordValues == {ListVal(<<"eval">>), IntVal}

\* no run of the agent in progress
NoSession ==
    /\ max_turns = 0
    /\ turn = 0
    /\ chat_history = <<>>
    /\ final_report = NoneVal
    /\ pc = "NO_SESSION"
    /\ pending = NoCall
    /\ returned = NoneVal
    /\ exception = "none"
    /\ requests = 0
    /\ dispatches = 0
    /\ last_response = NoResponse
    /\ only_calls = TRUE
    /\ invoked = <<>>
    /\ resolution = NoResolution
    /\ tool_outcome = NoOutcome
    /\ fs_log = <<>>

ToolInit == NoSession /\ ExtIdle

\* the handler's results, kept for inspection
Called(name, args, h) ==
    /\ invoked' = <<[name |-> name, args |-> args]>>
    /\ resolution' = h.resolution
    /\ tool_outcome' = Outcome(h)
    /\ fs_log' = h.log
    /\ pc' = "TOOL_CALLED"
    /\ UNCHANGED <<max_turns, turn, chat_history, final_report, pending,
                   returned, exception, requests, dispatches, last_response,
                   only_calls>>
    /\ UNCHANGED ext_vars

CallReadFileContent(fp) ==
    /\ pc = "NO_SESSION"
    /\ Called("read_file_content", [file_path |-> fp],
              ReadFileContent([file_path |-> fp]))

CallSearchPattern(fp, re) ==
    /\ pc = "NO_SESSION"
    /\ Called("search_pattern", [file_path |-> fp, regex_pattern |-> re],
              SearchPattern([file_path |-> fp, regex_pattern |-> re]))

CallListFunctions(fp) ==
    /\ pc = "NO_SESSION"
    /\ Called("list_functions", [file_path |-> fp],
              ListFunctions([file_path |-> fp]))

CallFindTaintSourcesAndSinks(fp, so, si) ==
    /\ pc = "NO_SESSION"
    /\ Called("find_taint_sources_and_sinks",
              [file_path |-> fp, sources |-> so, sinks |-> si],
              FindTaintSourcesAndSinks(
                  [file_path |-> fp, sources |-> so, sinks |-> si]))

(***************************************************************************)
(* DeepDiveAgent._tool_read_file_content (src/ultron/agent.py).  The       *)
(* project context maps path strings to file texts; it is built from the   *)
(* files of the project before the agent starts.                           *)
(***************************************************************************)
Min(a, b) == IF a < b THEN a ELSE b

project_context ==
    { PathVal(FALSE, RelativeToRoot(f)) :
        f \in { g \in FsFiles : IsPrefixPath(codebase_path, g) } }

\* lines 39-45
ToolReadFileContent(file_path) ==
    IF file_path \in project_context
    THEN Handled(NoResolution, "returned",
                 [kind |-> "file_content",
                  path |-> codebase_path \o file_path.segs,
                  chars |-> Min(FileChars(codebase_path \o file_path.segs),
                                MaxReadChars)],
                 "none", <<>>)
    ELSE Handled(NoResolution, "returned",
                 [kind |-> "not_in_context", file_path |-> file_path],
                 "none", <<>>)

CallToolReadFileContent(fp) ==
    /\ pc = "NO_SESSION"
    /\ invoked' = <<[name |-> "_tool_read_file_content",
                     args |-> [file_path |-> fp]]>>
    /\ resolution' = NoResolution
    /\ tool_outcome' = Outcome(ToolReadFileContent(fp))
    /\ fs_log' = <<>>
    /\ pc' = "DEEP_DIVE_TOOL_CALLED"
    /\ UNCHANGED <<max_turns, turn, chat_history, final_report, pending,
                   returned, exception, requests, dispatches, last_response,
                   only_calls>>
    /\ UNCHANGED ext_vars

ToolNext ==
    \/ \E fp \in FilePathValues : CallReadFileContent(fp)
    \/ \E fp \in InputPaths : CallToolReadFileContent(fp)
    \/ \E fp \in FilePathValues, re \in PatternValues : CallSearchPattern(fp, re)
    \/ \E fp \in FilePathValues : CallListFunctions(fp)
    \/ \E fp \in FilePathValues, si \in KeywordValues :
          CallFindTaintSourcesAndSinks(fp, ListVal(<<"request">>), si)

ToolSpec == ToolInit /\ [][ToolNext]_vars

(***************************************************************************)
(* execute_shell_command (src/ultron/autonomous/tools/shell.py).           *)
(* Texts are sequences of tokens: a marker line of the tool, a line break, *)
(* a blank, or a piece of the command's output.  The command starts the    *)
(* shell "sh", which may start "child", which may start "grandchild";      *)
(* descendants inherit the output pipes.                                   *)
(***************************************************************************)
MaxOutLen == 2

Whitespace == {" ", "\n"}
RECURSIVE LStripWs(_)
LStripWs(x) == IF x # <<>> /\ Head(x) \in Whitespace THEN LStripWs(Tail(x)) ELSE x
RECURSIVE RStripWs(_)
RStripWs(x) ==
    IF x # <<>> /\ x[Len(x)] \in Whitespace
    THEN RStripWs(SubSeq(x, 1, Len(x) - 1)) ELSE x
\* str.strip()
StripWs(x) == RStripWs(LStripWs(x))

\* line 25
TIMEOUT == 120

StdoutHeader == "--- STDOUT ---"
StderrHeader == "--- STDERR ---"
CrashFlag ==
    "*** POTENTIAL CRASH DETECTED in STDERR. Analyze the output carefully. ***"
\* line 38
CrashSignatures == {"AddressSanitizer", "Segmentation fault", "panic:"}
\* the test of line 38 with one marker only
CrashDetected_SegvOnly(err) ==
    \E i \in 1..Len(err) : err[i] = "Segmentation fault"
CrashDetected(err) == \E i \in 1..Len(err) : err[i] \in CrashSignatures

\* line 31
ExitCodeLine(rc) == <<"Exit Code: " \o ToString(rc), "\n">>
\* lines 32-33
StdoutBlock(out) ==
    IF out # <<>> THEN <<StdoutHeader, "\n">> \o StripWs(out) \o <<"\n">> ELSE <<>>
\* lines 34-35
StderrBlock(err) ==
    IF err # <<>> THEN <<StderrHeader, "\n">> \o StripWs(err) \o <<"\n">> ELSE <<>>
\* lines 38-39
CrashLine(err) == IF CrashDetected(err) THEN <<"\n", CrashFlag>> ELSE <<>>

\* lines 31-41, with the strings joined in another order
FormatOutput_StderrFirst(r) ==
    StripWs(ExitCodeLine(r.returncode) \o StderrBlock(r.stderr)
            \o StdoutBlock(r.stdout) \o CrashLine(r.stderr))

\* lines 31-41
FormatOutput(r) ==
    StripWs(ExitCodeLine(r.returncode) \o StdoutBlock(r.stdout)
            \o StderrBlock(r.stderr) \o CrashLine(r.stderr))

\* line 44, with an exit-code line in front
TimeoutText_WithExitCode ==
    <<"Exit Code: -9", "\n", "Error: Command timed out after "
        \o ToString(TIMEOUT) \o " seconds. It may be a long-running process or it may have hung.">>

\* line 44
TimeoutText ==
    <<"Error: Command timed out after " \o ToString(TIMEOUT)
        \o " seconds. It may be a long-running process or it may have hung.">>

\* line 46: the working directory does not exist (FileNotFoundError)
LaunchErrorText ==
    <<"Error: An unexpected exception occurred while executing the command. Reason: No such file or directory">>

\* what a command does when it runs to its end
OutputsOver(chars) == UNION { [1..n -> chars] : n \in 0..MaxOutLen }
Stdouts == OutputsOver({"x", "\n"}) \cup { <<"AddressSanitizer">> }
Stderrs ==
    OutputsOver({"e", "\n", "Segmentation fault"})
        \cup { <<"AddressSanitizer">>, <<"panic:">> }
Commands == [stdout : Stdouts, stderr : Stderrs, returncode : {0, 1}]
WorkingDirectories == { <<"proj">>, <<"proj","src">>, <<"etc">>, <<"nowhere">> }

ShellProcs == {"sh", "child", "grandchild"}
ParentProc(c) == IF c = "child" THEN "sh" ELSE "child"

\* lines 20-29: Popen; a missing cwd raises before any process exists
SpawnShell(cmd, cwd) ==
    /\ sh_pc = "IDLE"
    /\ sh_call' = [command |-> cmd, cwd |-> cwd]
    /\ IF cwd \in FsDirs
       THEN /\ sh_pc' = "COMMUNICATE"
            /\ sh_procs' = {"sh"}
            /\ sh_spawned' = {"sh"}
            /\ sh_result' = <<>>
       ELSE /\ sh_pc' = "RETURNED"
            /\ sh_result' = LaunchErrorText
            /\ UNCHANGED <<sh_procs, sh_spawned>>
    /\ UNCHANGED sh_timed_out
    /\ UNCHANGED <<loop_vars, tool_vars, cache_vars, parse_vars, aux_vars>>

\* the command's processes start descendants ...
ProcForks(c) ==
    /\ c \in {"child", "grandchild"}
    /\ ParentProc(c) \in sh_procs
    /\ c \notin sh_spawned
    /\ sh_procs' = sh_procs \cup {c}
    /\ sh_spawned' = sh_spawned \cup {c}
    /\ UNCHANGED <<sh_pc, sh_call, sh_timed_out, sh_result>>
    /\ UNCHANGED <<loop_vars, tool_vars, cache_vars, parse_vars, aux_vars>>

\* ... and exit on their own
ProcExits(p) ==
    /\ p \in sh_procs
    /\ sh_procs' = sh_procs \ {p}
    /\ UNCHANGED <<sh_pc, sh_call, sh_spawned, sh_timed_out, sh_result>>
    /\ UNCHANGED <<loop_vars, tool_vars, cache_vars, parse_vars, aux_vars>>

\* lines 20-41: communicate() saw the shell exit and both pipes closed
CommandCompletes ==
    /\ sh_pc = "COMMUNICATE"
    /\ sh_procs = {}
    /\ sh_pc' = "RETURNED"
    /\ sh_result' = FormatOutput(sh_call.command)
    /\ UNCHANGED <<sh_call, sh_procs, sh_spawned, sh_timed_out>>
    /\ UNCHANGED <<loop_vars, tool_vars, cache_vars, parse_vars, aux_vars>>

\* line 25: communicate(timeout=120) gives up while output is still awaited
TimeoutExpires ==
    /\ sh_pc = "COMMUNICATE"
    /\ sh_procs # {}
    /\ sh_pc' = "KILL"
    /\ sh_timed_out' = TRUE
    /\ UNCHANGED <<sh_call, sh_procs, sh_spawned, sh_result>>
    /\ UNCHANGED <<loop_vars, tool_vars, cache_vars, parse_vars, aux_vars>>

\* subprocess.run on TimeoutExpired: process.kill() signals the shell only
KillShell ==
    /\ sh_pc = "KILL"
    /\ sh_procs' = sh_procs \ {"sh"}
    /\ sh_pc' = "WAIT"
    /\ UNCHANGED <<sh_call, sh_spawned, sh_timed_out, sh_result>>
    /\ UNCHANGED <<loop_vars, tool_vars, cache_vars, parse_vars, aux_vars>>

\* subprocess.run: process.wait() for the shell, the pipes are closed unread,
\* the exception reaches line 43 and line 44 returns
ReturnTimedOut ==
    /\ sh_pc = "WAIT"
    /\ "sh" \notin sh_procs
    /\ sh_pc' = "RETURNED"
    /\ sh_result' = TimeoutText
    /\ UNCHANGED <<sh_call, sh_procs, sh_spawned, sh_timed_out>>
    /\ UNCHANGED <<loop_vars, tool_vars, cache_vars, parse_vars, aux_vars>>

ShellNext ==
    \/ \E cmd \in Commands, cwd \in WorkingDirectories : SpawnShell(cmd, cwd)
    \/ \E c \in ShellProcs : ProcForks(c)
    \/ \E p \in ShellProcs : ProcExits(p)
    \/ CommandCompletes
    \/ TimeoutExpires
    \/ KillShell
    \/ ReturnTimedOut

ShellSpec == ToolInit /\ [][ShellNext]_vars

(***************************************************************************)
(* The result cache (src/ultron/caching.py).  One fingerprint is looked    *)
(* at: its file {key}.json is a directory entry naming an inode, 0 when    *)
(* the file does not exist.  A file's text is a sequence of tokens         *)
(* <<key, value>>.  Each session runs save_to_cache or load_from_cache     *)
(* one system call at a time.                                              *)
(***************************************************************************)
MaxTicks == 3

\* line 12
CACHE_EXPIRY_SECONDS == 24 * 60 * 60
HalfWindow == CACHE_EXPIRY_SECONDS \div 2

Sessions == {1, 2}
Inodes == 1..3

\* ReviewData (models.py lines 72-78): summary, the number of
\* highConfidenceVulnerabilities, and error ("None" for None)
NoPayload == [summary |-> "", vulns |-> 0, error |-> "None"]
ReviewDatas == { [summary |-> "s1", vulns |-> 0, error |-> "None"],
                 [summary |-> "s2", vulns |-> 1, error |-> "None"],
                 [summary |-> "s1", vulns |-> 0, error |-> "boom"] }

Tok(k, v) == <<k, v>>
Hole == Tok("NUL", "")

\* line 62 without by_alias: the list is written under its field name,
\* which ReviewData(**cached_data) does not read
JsonDump_ByName(rd) ==
    <<Tok("{", ""), Tok("summary", rd.summary)>>
    \o [i \in 1..rd.vulns |-> Tok("high_confidence_vulnerabilities", "v")]
    \o <<Tok("error", IF rd.error = "None" THEN "null" ELSE rd.error),
         Tok("}", "")>>

\* line 62: json.dump(review_data.model_dump(by_alias=True), f)
JsonDump(rd) ==
    <<Tok("{", ""), Tok("summary", rd.summary)>>
    \o [i \in 1..rd.vulns |-> Tok("highConfidenceVulnerabilities", "v")]
    \o <<Tok("error", IF rd.error = "None" THEN "null" ELSE rd.error),
         Tok("}", "")>>

\* line 45: json.load; ok = FALSE is JSONDecodeError
IsFieldTok(t) == t[1] \notin {"{", "}", "[", "]", "NUL"}
JsonLoad(c) ==
    IF c = <<Tok("[", ""), Tok("]", "")>>
    THEN [ok |-> TRUE, kind |-> "list", fields |-> <<>>]
    ELSE IF /\ Len(c) >= 2
            /\ c[1] = Tok("{", "")
            /\ c[Len(c)] = Tok("}", "")
            /\ \A i \in 2..(Len(c) - 1) : IsFieldTok(c[i])
         THEN [ok |-> TRUE, kind |-> "dict", fields |-> SubSeq(c, 2, Len(c) - 1)]
         ELSE [ok |-> FALSE, kind |-> "error", fields |-> <<>>]

FieldValues(fields, k) == SelectSeq(fields, LAMBDA t : t[1] = k)

\* line 47 with any JSON object accepted
Validates_AnyObject(doc) == doc.ok /\ doc.kind = "dict"

\* line 47: ReviewData(**cached_data) needs a mapping with a summary
Validates(doc) ==
    /\ doc.ok
    /\ doc.kind = "dict"
    /\ FieldValues(doc.fields, "summary") # <<>>

LastValue(vals, default) == IF vals = <<>> THEN default ELSE vals[Len(vals)][2]
ReviewDataOf(doc) ==
    [summary |-> LastValue(FieldValues(doc.fields, "summary"), ""),
     vulns |-> Len(FieldValues(doc.fields, "highConfidenceVulnerabilities")),
     error |-> IF LastValue(FieldValues(doc.fields, "error"), "null") = "null"
               THEN "None"
               ELSE LastValue(FieldValues(doc.fields, "error"), "null")]

\* a file that is no JSON, or JSON of another shape
CorruptContents == { <<>>,
                     <<Tok("{", ""), Tok("summary", "s1")>>,
                     <<Tok("[", ""), Tok("]", "")>>,
                     <<Tok("{", ""), Tok("error", "null"), Tok("}", "")>> }

\* write(2) at a file offset
Padded(content, off) ==
    IF Len(content) >= off THEN content
    ELSE content \o [i \in 1..(off - Len(content)) |-> Hole]
Overwrite(base, off, toks) ==
    [i \in 1..(IF Len(base) > off + Len(toks) THEN Len(base) ELSE off + Len(toks)) |->
        IF i > off /\ i <= off + Len(toks) THEN toks[i - off] ELSE base[i]]
WriteAt(content, off, toks) == Overwrite(Padded(content, off), off, toks)

EmptyInode == [content |-> <<>>, mtime |-> 0]
Snapshot(dir, ino) ==
    IF dir = 0 THEN [exists |-> FALSE, content |-> <<>>, mtime |-> 0]
    ELSE [exists |-> TRUE, content |-> ino[dir].content, mtime |-> ino[dir].mtime]
NoSnapshot == Snapshot(0, <<>>)
NoResult == [kind |-> "none", data |-> NoPayload]
NoneResult == [kind |-> "None", data |-> NoPayload]
DataResult(rd) == [kind |-> "data", data |-> rd]
IdleSession ==
    [pc |-> "idle", op |-> "none", payload |-> NoPayload, fd |-> 0, off |-> 0,
     at |-> 0, result |-> NoResult, exc |-> "none",
     before |-> NoSnapshot, after |-> NoSnapshot]

Resting(s) == sess[s].pc \in {"idle", "done", "raised"}
Quiet == \A s \in Sessions : Resting(s)
HeldBy(i, s) == sess[s].fd = i
InodeFree(i) == i # cache_dir /\ \A s \in Sessions : ~HeldBy(i, s)
FreeInode == CHOOSE i \in Inodes : InodeFree(i) /\ \A j \in Inodes : InodeFree(j) => i <= j
MidWrite(i) == \E w \in Sessions : sess[w].pc = "save_opened" /\ sess[w].fd = i

\* the inode table once the closer s lets go of i while dir names the file
Released(ino, i, dir, s) ==
    IF i # dir /\ \A t \in Sessions \ {s} : ~HeldBy(i, t)
    THEN [ino EXCEPT ![i] = EmptyInode] ELSE ino
\* the inode table once the name of i is removed
Unlinked(ino, i) ==
    IF \A t \in Sessions : ~HeldBy(i, t) THEN [ino EXCEPT ![i] = EmptyInode] ELSE ino

Finish(s, res, dir, ino) ==
    [sess EXCEPT ![s].pc = "done", ![s].result = res, ![s].fd = 0,
                 ![s].after = Snapshot(dir, ino)]
Goto(s, label) == [sess EXCEPT ![s].pc = label]

\* line 50 / line 54: cache_file.unlink() of an existing file, then line 55
UnlinkAndReturn(s) ==
    /\ cache_dir' = 0
    /\ inodes' = Unlinked(inodes, cache_dir)
    /\ sess' = Finish(s, NoneResult, 0, Unlinked(inodes, cache_dir))
    /\ deleted_midwrite' = (deleted_midwrite \/ MidWrite(cache_dir))
    /\ UNCHANGED saw_partial

\* ---- save_to_cache ----
\* line 61: open(cache_file, 'w') creates the file or truncates it
SaveOpen(s, rd) ==
    /\ sess[s].pc \in {"idle", "done"}
    /\ cache_dir' = (IF cache_dir # 0 THEN cache_dir ELSE FreeInode)
    /\ inodes' = [inodes EXCEPT ![IF cache_dir # 0 THEN cache_dir ELSE FreeInode] =
                     [content |-> <<>>, mtime |-> clock]]
    /\ sess' = [sess EXCEPT ![s] =
                  [IdleSession EXCEPT !.pc = "save_opened", !.op = "save",
                      !.payload = rd, !.at = clock,
                      !.fd = (IF cache_dir # 0 THEN cache_dir ELSE FreeInode),
                      !.before = Snapshot(cache_dir, inodes)]]
    /\ UNCHANGED <<clock, cwd_mtime, saw_partial, deleted_midwrite>>
    /\ UNCHANGED <<loop_vars, tool_vars, shell_vars, parse_vars, aux_vars>>

\* line 62: the buffer of f is written out before the dump is complete
SaveFlush(s, k) ==
    /\ sess[s].pc = "save_opened"
    /\ sess[s].off = 0
    /\ k \in 1..(Len(JsonDump(sess[s].payload)) - 1)
    /\ inodes' = [inodes EXCEPT ![sess[s].fd] =
                     [content |-> WriteAt(@.content, 0,
                                          SubSeq(JsonDump(sess[s].payload), 1, k)),
                      mtime |-> clock]]
    /\ sess' = [sess EXCEPT ![s].off = k]
    /\ UNCHANGED <<clock, cwd_mtime, cache_dir, saw_partial, deleted_midwrite>>
    /\ UNCHANGED <<loop_vars, tool_vars, shell_vars, parse_vars, aux_vars>>

Closed(s, ino) ==
    /\ inodes' = Released(ino, sess[s].fd, cache_dir, s)
    /\ sess' = Finish(s, NoneResult, cache_dir, Released(ino, sess[s].fd, cache_dir, s))

\* lines 61-62: the rest of the dump is written and f is closed
SaveClose(s) ==
    /\ sess[s].pc = "save_opened"
    /\ Closed(s, [inodes EXCEPT ![sess[s].fd] =
                     [content |-> WriteAt(@.content, sess[s].off,
                          SubSeq(JsonDump(sess[s].payload), sess[s].off + 1,
                                 Len(JsonDump(sess[s].payload)))),
                      mtime |-> clock]])
    /\ UNCHANGED <<clock, cwd_mtime, cache_dir, saw_partial, deleted_midwrite>>
    /\ UNCHANGED <<loop_vars, tool_vars, shell_vars, parse_vars, aux_vars>>

\* ---- load_from_cache ----
\* line 39: cache_file.exists(), else line 55
LoadExists(s) ==
    /\ sess[s].pc \in {"idle", "done"}
    /\ sess' = [sess EXCEPT ![s] =
                  [IdleSession EXCEPT !.op = "load", !.at = clock,
                      !.before = Snapshot(cache_dir, inodes),
                      !.pc = (IF cache_dir = 0 THEN "done" ELSE "load_stat"),
                      !.result = (IF cache_dir = 0 THEN NoneResult ELSE NoResult),
                      !.after = Snapshot(cache_dir, inodes)]]
    /\ UNCHANGED <<clock, cwd_mtime, cache_dir, inodes, saw_partial, deleted_midwrite>>
    /\ UNCHANGED <<loop_vars, tool_vars, shell_vars, parse_vars, aux_vars>>

\* lines 42-43: the file's st_mtime against the st_mtime of Path.cwd();
\* stat of a missing file raises inside the try
LoadStat(s) ==
    /\ sess[s].pc = "load_stat"
    /\ sess' = Goto(s, IF cache_dir = 0 THEN "load_except"
                       ELSE IF cwd_mtime - inodes[cache_dir].mtime < CACHE_EXPIRY_SECONDS
                            THEN "load_read" ELSE "load_expired")
    /\ UNCHANGED <<clock, cwd_mtime, cache_dir, inodes, saw_partial, deleted_midwrite>>
    /\ UNCHANGED <<loop_vars, tool_vars, shell_vars, parse_vars, aux_vars>>

\* lines 44-47: open, json.load, ReviewData(**cached_data)
LoadRead(s) ==
    /\ sess[s].pc = "load_read"
    /\ IF cache_dir = 0
       THEN /\ sess' = Goto(s, "load_except")
            /\ UNCHANGED saw_partial
       ELSE /\ sess' = (IF Validates(JsonLoad(inodes[cache_dir].content))
                        THEN Finish(s, DataResult(ReviewDataOf(
                                         JsonLoad(inodes[cache_dir].content))),
                                    cache_dir, inodes)
                        ELSE Goto(s, "load_except"))
            /\ saw_partial' = (saw_partial \/ MidWrite(cache_dir))
    /\ UNCHANGED <<clock, cwd_mtime, cache_dir, inodes, deleted_midwrite>>
    /\ UNCHANGED <<loop_vars, tool_vars, shell_vars, parse_vars, aux_vars>>

\* lines 49-50, then line 55; unlink of a missing file raises inside the try
LoadUnlinkExpired(s) ==
    /\ sess[s].pc = "load_expired"
    /\ IF cache_dir = 0
       THEN /\ sess' = Goto(s, "load_except")
            /\ UNCHANGED <<cache_dir, inodes, saw_partial, deleted_midwrite>>
       ELSE UnlinkAndReturn(s)
    /\ UNCHANGED <<clock, cwd_mtime>>
    /\ UNCHANGED <<loop_vars, tool_vars, shell_vars, parse_vars, aux_vars>>

\* lines 51-53: the handler asks whether the file exists, else line 55
LoadExceptExists(s) ==
    /\ sess[s].pc = "load_except"
    /\ sess' = (IF cache_dir # 0 THEN Goto(s, "load_except_unlink")
                ELSE Finish(s, NoneResult, cache_dir, inodes))
    /\ UNCHANGED <<clock, cwd_mtime, cache_dir, inodes, saw_partial, deleted_midwrite>>
    /\ UNCHANGED <<loop_vars, tool_vars, shell_vars, parse_vars, aux_vars>>

\* line 54: unlink in the handler; of a missing file it raises out of
\* load_from_cache
LoadExceptUnlink(s) ==
    /\ sess[s].pc = "load_except_unlink"
    /\ IF cache_dir = 0
       THEN /\ sess' = [sess EXCEPT ![s].pc = "raised",
                                    ![s].exc = "FileNotFoundError",
                                    ![s].after = Snapshot(cache_dir, inodes)]
            /\ UNCHANGED <<cache_dir, inodes, saw_partial, deleted_midwrite>>
       ELSE UnlinkAndReturn(s)
    /\ UNCHANGED <<clock, cwd_mtime>>
    /\ UNCHANGED <<loop_vars, tool_vars, shell_vars, parse_vars, aux_vars>>

\* ---- the environment between two calls ----
\* wall-clock time passes
Tick ==
    /\ Quiet
    /\ clock < MaxTicks * HalfWindow
    /\ clock' = clock + HalfWindow
    /\ UNCHANGED <<cwd_mtime, cache_dir, inodes, sess, saw_partial, deleted_midwrite>>
    /\ UNCHANGED <<loop_vars, tool_vars, shell_vars, parse_vars, aux_vars>>

\* an entry of the working directory is created or removed
TouchCwd ==
    /\ Quiet
    /\ cwd_mtime # clock
    /\ cwd_mtime' = clock
    /\ UNCHANGED <<clock, cache_dir, inodes, sess, saw_partial, deleted_midwrite>>
    /\ UNCHANGED <<loop_vars, tool_vars, shell_vars, parse_vars, aux_vars>>

\* the stored file is damaged, or was written under another schema
CorruptEntry(c) ==
    /\ Quiet
    /\ cache_dir # 0
    /\ inodes' = [inodes EXCEPT ![cache_dir] = [content |-> c, mtime |-> clock]]
    /\ UNCHANGED <<clock, cwd_mtime, cache_dir, sess, saw_partial, deleted_midwrite>>
    /\ UNCHANGED <<loop_vars, tool_vars, shell_vars, parse_vars, aux_vars>>

\* one session, whole calls
CacheNext ==
    \/ \E rd \in ReviewDatas : SaveOpen(1, rd)
    \/ \E k \in 1..3 : SaveFlush(1, k)
    \/ SaveClose(1)
    \/ LoadExists(1)
    \/ LoadStat(1)
    \/ LoadRead(1)
    \/ LoadUnlinkExpired(1)
    \/ LoadExceptExists(1)
    \/ LoadExceptUnlink(1)
    \/ Tick
    \/ TouchCwd
    \/ \E c \in CorruptContents : CorruptEntry(c)

CacheSpec == ToolInit /\ [][CacheNext]_vars

\* two sessions, one call each, on a cache that is empty, holds a fresh
\* entry, an entry older than the window, or a file of another shape
RaceInit ==
    /\ NoSession
    /\ ShellIdle
    /\ ParseIdle
    /\ AuxIdle
    /\ clock = 2 * CACHE_EXPIRY_SECONDS
    /\ cwd_mtime = clock
    /\ \E e \in { [dir |-> 0, ino |-> EmptyInode],
                  [dir |-> 1, ino |-> [content |-> JsonDump(NoPayload), mtime |-> clock]],
                  [dir |-> 1, ino |-> [content |-> JsonDump(NoPayload), mtime |-> 0]],
                  [dir |-> 1, ino |-> [content |-> <<Tok("[", ""), Tok("]", "")>>,
                                       mtime |-> clock]] } :
          /\ cache_dir = e.dir
          /\ inodes = [i \in Inodes |-> IF i = 1 THEN e.ino ELSE EmptyInode]
    /\ sess = [s \in Sessions |-> IdleSession]
    /\ saw_partial = FALSE
    /\ deleted_midwrite = FALSE

RaceNext ==
    \E s \in Sessions :
        \/ \E rd \in ReviewDatas : sess[s].pc = "idle" /\ SaveOpen(s, rd)
        \/ \E k \in 1..3 : SaveFlush(s, k)
        \/ SaveClose(s)
        \/ sess[s].pc = "idle" /\ LoadExists(s)
        \/ LoadStat(s)
        \/ LoadRead(s)
        \/ LoadUnlinkExpired(s)
        \/ LoadExceptExists(s)
        \/ LoadExceptUnlink(s)

CacheRaceSpec == RaceInit /\ [][RaceNext]_vars

(***************************************************************************)
(* The single-shot parse path (src/ultron/reviewer.py): json.loads,        *)
(* clean_json_response and lines 217-273 of get_gemini_review.  A text is  *)
(* a sequence of characters.                                               *)
(***************************************************************************)
Q == "\""
BS == "\\"
Digits == {"1", "2"}
ValidEscapes == {Q, BS, "/", "b", "f", "n", "r", "t"}
IsWs(c) == c = " "

\* ---- json.loads: a scan with a stack of open containers ----
JsonStart == [mode |-> "value", stack |-> <<>>, out |-> <<>>]
Push(st, b, m) == [mode |-> m, stack |-> Append(st.stack, b), out |-> st.out]
Pop(st) == [mode |-> "after", stack |-> SubSeq(st.stack, 1, Len(st.stack) - 1),
            out |-> st.out]
To(st, m) == [st EXCEPT !.mode = m]
Top(st) == IF st.stack = <<>> THEN "none" ELSE st.stack[Len(st.stack)]

\* after a complete value
AfterValue(st, c) ==
    CASE IsWs(c) -> To(st, "after")
      [] c = "," -> IF Top(st) = "{" THEN To(st, "key")
                    ELSE IF Top(st) = "[" THEN To(st, "value") ELSE To(st, "fail")
      [] c = "}" -> IF Top(st) = "{" THEN Pop(st) ELSE To(st, "fail")
      [] c = "]" -> IF Top(st) = "[" THEN Pop(st) ELSE To(st, "fail")
      [] OTHER -> To(st, "fail")

\* where a value may start
AtValue(st, c) ==
    CASE IsWs(c) -> st
      [] c = "{" -> Push(st, "{", "first_key")
      [] c = "[" -> Push(st, "[", "first_elem")
      [] c = Q -> To(st, "string_val")
      [] c \in Digits -> To(st, "number")
      [] c = "]" -> IF st.mode = "first_elem" THEN Pop(st) ELSE To(st, "fail")
      [] OTHER -> To(st, "fail")

AtKey(st, c) ==
    CASE IsWs(c) -> st
      [] c = Q -> To(st, "string_key")
      [] c = "}" -> IF st.mode = "first_key" THEN Pop(st) ELSE To(st, "fail")
      [] OTHER -> To(st, "fail")

InString(st, c, esc, closed) ==
    CASE c = BS -> To(st, esc)
      [] c = Q -> To(st, closed)
      [] OTHER -> st

JsonStep(st, c) ==
    CASE st.mode \in {"value", "first_elem"} -> AtValue(st, c)
      [] st.mode \in {"first_key", "key"} -> AtKey(st, c)
      [] st.mode = "string_key" -> InString(st, c, "key_esc", "colon")
      [] st.mode = "string_val" -> InString(st, c, "val_esc", "after")
      [] st.mode = "key_esc" ->
            IF c \in ValidEscapes THEN To(st, "string_key") ELSE To(st, "fail")
      [] st.mode = "val_esc" ->
            IF c \in ValidEscapes THEN To(st, "string_val") ELSE To(st, "fail")
      [] st.mode = "colon" ->
            IF IsWs(c) THEN st ELSE IF c = ":" THEN To(st, "value") ELSE To(st, "fail")
      [] st.mode = "number" ->
            IF c \in Digits THEN st ELSE AfterValue(st, c)
      [] st.mode = "after" -> AfterValue(st, c)
      [] OTHER -> st

InsideString(st) == st.mode \in {"string_key", "string_val", "key_esc", "val_esc"}
\* the characters that make up the document: blanks between tokens dropped
Kept(st, c) ==
    IF IsWs(c) /\ ~InsideString(st) THEN st
    ELSE [st EXCEPT !.out = Append(@, c)]

RECURSIVE JsonScan(_, _, _)
JsonScan(text, i, st) ==
    IF i > Len(text) THEN st
    ELSE JsonScan(text, i + 1, JsonStep(Kept(st, text[i]), text[i]))

Accepted(st) == st.mode \in {"after", "number"} /\ st.stack = <<>>
Loaded(st) == [ok |-> Accepted(st), value |-> IF Accepted(st) THEN st.out ELSE <<>>]
\* json.loads(text): ok = FALSE is JSONDecodeError
JsonLoads(text) == Loaded(JsonScan(text, 1, JsonStart))
IsJson(text) == JsonLoads(text).ok

\* ---- clean_json_response, lines 26-119 ----
\* the last index <= i of a character that is no blank, 0 if none
RECURSIVE SkipWsBack(_, _)
SkipWsBack(text, i) ==
    IF i <= 0 THEN 0
    ELSE IF IsWs(text[i]) THEN SkipWsBack(text, i - 1) ELSE i
\* the first index >= i of a character that is no blank, Len + 1 if none
RECURSIVE SkipWsFwd(_, _)
SkipWsFwd(text, i) ==
    IF i > Len(text) THEN Len(text) + 1
    ELSE IF IsWs(text[i]) THEN SkipWsFwd(text, i + 1) ELSE i
\* str.rfind, as a 1-based index, 0 if absent
RECURSIVE RFind(_, _, _)
RFind(text, c, i) ==
    IF i <= 0 THEN 0 ELSE IF text[i] = c THEN i ELSE RFind(text, c, i - 1)
Count(text, c) == Len(SelectSeq(text, LAMBDA x : x = c))
Repeat(c, n) == [i \in 1..n |-> c]
CharAt(text, i) == IF i >= 1 /\ i <= Len(text) THEN text[i] ELSE "none"
\* text[:n]
Take(text, n) == SubSeq(text, 1, IF n > Len(text) THEN Len(text) ELSE n)

\* lines 35-36
WithOpeningBrace(text) ==
    IF text # <<>> /\ text[1] = "{" THEN text ELSE <<"{">> \o text

\* the text ends with  " blanks : blanks  and then tail
KeyColonBefore(text, i) ==
    /\ CharAt(text, SkipWsBack(text, i)) = ":"
    /\ CharAt(text, SkipWsBack(text, SkipWsBack(text, i) - 1)) = Q

\* line 40: re.search(r'"\s*:\s*"$', text)
EndsWithOpenValue(text) ==
    /\ CharAt(text, Len(text)) = Q
    /\ KeyColonBefore(text, Len(text) - 1)

\* line 47
BeforeColonWindow == 20
\* lines 45-48, with last_colon the 1-based index of the last ':'
BeforeColon(text, last_colon) ==
    IF last_colon - 1 > BeforeColonWindow
    THEN SubSeq(text, last_colon - BeforeColonWindow, last_colon - 1)
    ELSE SubSeq(text, 1, last_colon - 1)
LooksCutAfterQuote(text, last_colon) ==
    /\ last_colon - 1 > 0
    /\ Count(BeforeColon(text, last_colon), Q) > 0
    /\ CharAt(text, last_colon + 1) = " "
    /\ CharAt(text, last_colon + 2) = Q

\* lines 40-50
CloseTrailingValue(text) ==
    IF EndsWithOpenValue(text) THEN text \o <<Q, Q>>
    ELSE IF CharAt(text, Len(text)) = Q
            /\ LooksCutAfterQuote(text, RFind(text, ":", Len(text)))
         THEN text \o <<Q>>
         ELSE text

\* lines 53-58; positions are 0-based as in the code
ScanStart ==
    [brace_count |-> 0, bracket_count |-> 0, in_string |-> FALSE,
     escape_next |-> FALSE, last_valid_pos |-> -1, last_complete_field |-> -1]

\* lines 73-85
OutsideString(st, char, i) ==
    CASE char = "{" -> [st EXCEPT !.brace_count = @ + 1]
      [] char = "}" -> [st EXCEPT !.brace_count = @ - 1,
                                  !.last_valid_pos =
                                      IF st.brace_count - 1 = 0 THEN i ELSE @]
      [] char = "[" -> [st EXCEPT !.bracket_count = @ + 1]
      [] char = "]" -> [st EXCEPT !.bracket_count = @ - 1]
      [] char = "," /\ st.brace_count = 1 -> [st EXCEPT !.last_complete_field = i]
      [] OTHER -> st

\* lines 61-85: the body of the loop for the character at 0-based index i
ScanChar(st, char, i) ==
    IF st.escape_next THEN [st EXCEPT !.escape_next = FALSE]
    ELSE IF char = BS THEN [st EXCEPT !.escape_next = TRUE]
    ELSE IF char = Q THEN [st EXCEPT !.in_string = ~@]
    ELSE IF ~st.in_string THEN OutsideString(st, char, i)
    ELSE st

\* line 60
RECURSIVE ScanText(_, _, _)
ScanText(text, k, st) ==
    IF k > Len(text) THEN st
    ELSE ScanText(text, k + 1, ScanChar(st, text[k], k - 1))

\* lines 97-108
CloseOpenStructures(text, in_string) ==
    (IF in_string THEN text \o <<Q>> ELSE text)
    \o (IF Count(text, "[") - Count(text, "]") > 0
        THEN Repeat("]", Count(text, "[") - Count(text, "]")) ELSE <<>>)
    \o (IF Count(text, "{") - Count(text, "}") > 0
        THEN Repeat("}", Count(text, "{") - Count(text, "}")) ELSE <<>>)

\* lines 93-108, text and in_string as lines 88-90 left them
CloseOrCut(text, in_string, st) ==
    IF st.last_valid_pos > 0 THEN Take(text, st.last_valid_pos + 1)
    ELSE CloseOpenStructures(text, in_string)

\* lines 88-108
Restructure(text, st) ==
    IF st.in_string /\ st.last_complete_field > 0
    THEN CloseOrCut(Take(text, st.last_complete_field), FALSE, st)
    ELSE CloseOrCut(text, st.in_string, st)

\* re.sub(r',\s*<c>', '<c>', text), from index i on
RECURSIVE DropCommaBefore(_, _, _)
DropCommaBefore(text, c, i) ==
    IF i > Len(text) THEN <<>>
    ELSE IF text[i] = "," /\ CharAt(text, SkipWsFwd(text, i + 1)) = c
         THEN <<c>> \o DropCommaBefore(text, c, SkipWsFwd(text, i + 1) + 1)
         ELSE <<text[i]>> \o DropCommaBefore(text, c, i + 1)

\* lines 111-113
TidyCommas(text) ==
    DropCommaBefore(DropCommaBefore(DropCommaBefore(text, ",", 1), "}", 1), "]", 1)

\* line 116: re.sub(r'"\s*:\s*$', '": ""', text)
FillMissingValue(text) ==
    IF KeyColonBefore(text, Len(text))
    THEN SubSeq(text, 1, SkipWsBack(text, SkipWsBack(text, Len(text)) - 1))
         \o <<":", " ", Q, Q>>
    ELSE text

\* line 117: re.sub(r'"\s*:\s*"[^"]*$', lambda m: m.group(0) + '"', text)
CloseLastValue(text) ==
    IF RFind(text, Q, Len(text)) > 0
       /\ KeyColonBefore(text, RFind(text, Q, Len(text)) - 1)
    THEN text \o <<Q>> ELSE text

\* lines 53-119 on the text of lines 32-50
Repaired(text) ==
    CloseLastValue(FillMissingValue(TidyCommas(
        Restructure(text, ScanText(text, 1, ScanStart)))))

\* lines 26-119
clean_json_response(text) ==
    Repaired(CloseTrailingValue(WithOpeningBrace(StripWs(text))))


\* ---- get_gemini_review, lines 217-282 ----
\* BatchReviewData(**parsed_data): a mapping is needed, anything else raises
\* TypeError, which line 275 turns into an error result
IsObject(value) == value # <<>> /\ value[1] = "{"
\* error is the result's error field; audit is the response text that the
\* result carries along (no field of any result is given raw_json_text)
Document(value, via) ==
    [kind |-> "document", via |-> via, doc |-> value, error |-> "None",
     audit |-> <<>>]
\* lines 137, 209, 211, 229, 267 and 276
ErrorMessage(via) ==
    CASE via = "empty" -> "Empty response from API"
      [] via = "no_client" -> "GEMINI_API_KEY not configured."
      [] via = "no_candidates" -> "No content generated by API for the batch."
      [] via = "blocked" -> "Batch content generation blocked. Reason: <block_reason>."
      [] via = "fallback" -> "Failed to parse response: <JSONDecodeError>"
      [] OTHER -> "Gemini API call error for batch: <exception>"
ErrorReview(via) ==
    [kind |-> "error", via |-> via, doc |-> <<>>, error |-> ErrorMessage(via),
     audit |-> <<>>]
NoReview ==
    [kind |-> "none", via |-> "none", doc |-> <<>>, error |-> "None", audit |-> <<>>]
BatchReviewData(value, via) ==
    IF IsObject(value) THEN Document(value, via) ELSE ErrorReview("exception")

\* no handler at line 275: the exception leaves get_gemini_review
ExceptException_Reraise(exc) == [pc |-> "raised", review |-> NoReview]

\* lines 275-282: whatever was raised inside the try block of line 182
\* becomes an error result
ExceptException(exc) == [pc |-> "returned", review |-> ErrorReview("exception")]

\* line 237 skipped: every text is sent to the repair
DirectParse_Never(text) == [ok |-> FALSE, value |-> <<>>]

\* line 237
DirectParse(text) == JsonLoads(text)

\* model outputs: complete documents and every way of cutting them short
CompleteOutputs ==
    { <<"{", Q, "a", Q, ":", Q, "x", Q, "}">>,
      <<"{", Q, "a", Q, ":", " ", Q, "x", Q, ",", " ", Q, "b", Q, ":", " ", Q, "y", Q, "}">>,
      <<"{", Q, "a", Q, ":", "[", "{", Q, "b", Q, ":", Q, "x", Q, "}", "]", "}">>,
      <<"{", Q, "a", Q, ":", "{", Q, "b", Q, ":", Q, "x", Q, ",", Q, "c", Q, ":", Q, "y", Q, "}", "}">>,
      <<"{", Q, "a", Q, ":", "[", Q, "x", Q, ",", Q, "y", Q, "]", "}">>,
      <<"{", Q, "a", Q, ":", "1", ",", Q, "b", Q, ":", Q, "x", BS, Q, "y", Q, "}">>,
      <<"{", Q, "a", Q, ":", Q, ",", "}", Q, "}">>,
      <<"{", Q, "a", Q, ":", Q, "{", Q, "}">>,
      <<" ", "{", Q, "a", Q, " ", ":", " ", "1", " ", "}", " ">>,
      <<"[", "1", ",", "2", "]">>,
      <<Q, "x", Q>> }
Prefixes(text) == { SubSeq(text, 1, n) : n \in 0..Len(text) }
ModelOutputs == UNION { Prefixes(d) : d \in CompleteOutputs }

\* ---- review_code_command, main_cli.py lines 275-301 ----
\* caching.py line 14: the parameters of get_cache_key, and those without a
\* default
KeyParams ==
    {"code", "language", "model_name", "additional_context",
     "frameworks_libraries", "security_requirements"}
KeyRequired == {"code", "language", "model_name"}
\* main_cli.py lines 279-282: the keywords the command passes
KeyKeywords ==
    {"code_batch", "primary_language_hint", "model_name", "additional_context",
     "frameworks_libraries", "security_requirements"}
\* a call binds when every keyword names a parameter and every parameter
\* without a default is given; otherwise it raises TypeError
Binds(keywords, params, required) ==
    keywords \subseteq params /\ required \subseteq keywords

\* line 300, with every test but the first left out
SaveGuard_ResultOnly(result, no_cache, cache_key_str) == result.kind # "none"

\* line 300
SaveGuard(result, no_cache, cache_key_str) ==
    /\ result.kind # "none"
    /\ result.error \in {"None", ""}
    /\ ~no_cache
    /\ cache_key_str # ""

\* the command is running or was not started: get_gemini_review can be called
CanReview == cli.pc \in {"idle", "reviewing"}

\* lines 275-287: the key is computed and the cache looked up (a miss: a hit
\* skips lines 288-301), unless --no-cache was given
StartReview(no_cache) ==
    /\ cli.pc = "idle"
    /\ pr_pc = "idle"
    /\ cli' = (IF no_cache
               THEN [cli EXCEPT !.pc = "reviewing", !.no_cache = TRUE]
               ELSE IF Binds(KeyKeywords, KeyParams, KeyRequired)
                    THEN [cli EXCEPT !.pc = "reviewing", !.no_cache = FALSE,
                                     !.cache_key_str = "sha256"]
                    ELSE [cli EXCEPT !.pc = "raised", !.no_cache = FALSE,
                                     !.exc = "TypeError"])
    /\ UNCHANGED <<pr_pc, raw_json_text, cleaned_json, review, cleanings, backend>>
    /\ UNCHANGED <<loop_vars, tool_vars, shell_vars, cache_vars, aux_vars>>

\* lines 300-301, after get_gemini_review returned; saved holds the calls
\* of save_to_cache                                                (ghost)
FinishReview ==
    /\ cli.pc = "reviewing"
    /\ pr_pc \in {"returned", "raised"}
    /\ cli' = (IF pr_pc = "raised" THEN [cli EXCEPT !.pc = "raised", !.exc = "Exception"]
               ELSE IF SaveGuard(review, cli.no_cache, cli.cache_key_str)
               THEN [cli EXCEPT !.pc = "done",
                                !.saved = @ \cup {[key |-> cli.cache_key_str,
                                                    no_cache |-> cli.no_cache,
                                                    kind |-> review.kind,
                                                    error |-> review.error]}]
               ELSE [cli EXCEPT !.pc = "done"])
    /\ UNCHANGED <<pr_pc, raw_json_text, cleaned_json, review, cleanings, backend>>
    /\ UNCHANGED <<loop_vars, tool_vars, shell_vars, cache_vars, aux_vars>>

\* the command is run again: the cache is all that is left of the last run
NextReview ==
    /\ cli.pc \in {"done", "raised"}
    /\ cli' = [cli EXCEPT !.pc = "idle", !.no_cache = FALSE,
                          !.cache_key_str = "", !.exc = "none"]
    /\ pr_pc' = "idle"
    /\ raw_json_text' = <<>>
    /\ cleaned_json' = <<>>
    /\ review' = NoReview
    /\ cleanings' = 0
    /\ backend' = "none"
    /\ UNCHANGED <<loop_vars, tool_vars, shell_vars, cache_vars, aux_vars>>

\* ---- get_gemini_review: the backend call, lines 136-233 ----
\* lines 136-137
NoClient ==
    /\ pr_pc = "idle"
    /\ CanReview
    /\ backend' = "no_client"
    /\ pr_pc' = "returned"
    /\ review' = ErrorReview("no_client")
    /\ UNCHANGED <<raw_json_text, cleaned_json, cleanings, cli>>
    /\ UNCHANGED <<loop_vars, tool_vars, shell_vars, cache_vars, aux_vars>>

\* lines 185-197 and 217-221: generate_content raises, or the candidate
\* has no content and reading its parts raises AttributeError
BackendCauses == {"generate_content_raised", "candidate_without_content"}
BackendRaises(cause) ==
    /\ pr_pc = "idle"
    /\ CanReview
    /\ backend' = cause
    /\ pr_pc' = ExceptException(cause).pc
    /\ review' = ExceptException(cause).review
    /\ UNCHANGED <<raw_json_text, cleaned_json, cleanings, cli>>
    /\ UNCHANGED <<loop_vars, tool_vars, shell_vars, cache_vars, aux_vars>>

\* lines 208-214: no candidate, with a block reason or without
NoCandidates(block_reason) ==
    /\ pr_pc = "idle"
    /\ CanReview
    /\ backend' = (IF block_reason THEN "blocked" ELSE "no_candidates")
    /\ pr_pc' = "returned"
    /\ review' = ErrorReview(IF block_reason THEN "blocked" ELSE "no_candidates")
    /\ UNCHANGED <<raw_json_text, cleaned_json, cleanings, cli>>
    /\ UNCHANGED <<loop_vars, tool_vars, shell_vars, cache_vars, aux_vars>>

\* lines 217-233
ReceiveText(raw) ==
    /\ pr_pc = "idle"
    /\ CanReview
    /\ raw_json_text' = raw
    /\ backend' = "text"
    /\ IF StripWs(raw) = <<>>
       THEN pr_pc' = "returned" /\ review' = ErrorReview("empty")
       ELSE pr_pc' = "parse" /\ UNCHANGED review
    /\ UNCHANGED <<cleaned_json, cleanings, cli>>
    /\ UNCHANGED <<loop_vars, tool_vars, shell_vars, cache_vars, aux_vars>>

\* lines 235-241
ParseDirectly ==
    /\ pr_pc = "parse"
    /\ IF DirectParse(raw_json_text).ok
       THEN /\ pr_pc' = "returned"
            /\ review' = BatchReviewData(DirectParse(raw_json_text).value, "direct")
       ELSE /\ pr_pc' = "clean"
            /\ UNCHANGED review
    /\ UNCHANGED <<raw_json_text, cleaned_json, cleanings>>
    /\ UNCHANGED <<backend, cli>>
    /\ UNCHANGED <<loop_vars, tool_vars, shell_vars, cache_vars, aux_vars>>

\* line 247
CleanText ==
    /\ pr_pc = "clean"
    /\ cleaned_json' = clean_json_response(raw_json_text)
    /\ cleanings' = cleanings + 1
    /\ pr_pc' = "parse_cleaned"
    /\ UNCHANGED <<raw_json_text, review>>
    /\ UNCHANGED <<backend, cli>>
    /\ UNCHANGED <<loop_vars, tool_vars, shell_vars, cache_vars, aux_vars>>

\* lines 253-273
ParseCleaned ==
    /\ pr_pc = "parse_cleaned"
    /\ pr_pc' = "returned"
    /\ review' = (IF JsonLoads(cleaned_json).ok
                  THEN BatchReviewData(JsonLoads(cleaned_json).value, "cleaned")
                  ELSE ErrorReview("fallback"))
    /\ UNCHANGED <<raw_json_text, cleaned_json, cleanings>>
    /\ UNCHANGED <<backend, cli>>
    /\ UNCHANGED <<loop_vars, tool_vars, shell_vars, cache_vars, aux_vars>>

ParseNext ==
    \/ \E no_cache \in BOOLEAN : StartReview(no_cache)
    \/ FinishReview
    \/ NextReview
    \/ NoClient
    \/ \E cause \in BackendCauses : BackendRaises(cause)
    \/ \E block_reason \in BOOLEAN : NoCandidates(block_reason)
    \/ \E raw \in ModelOutputs : ReceiveText(raw)
    \/ ParseDirectly
    \/ CleanText
    \/ ParseCleaned

ParseSpec == ToolInit /\ [][ParseNext]_vars

(***************************************************************************)
(* Pure functions of the package: get_cache_key (src/ultron/caching.py),   *)
(* search_codebase and find_taints_in_file                                 *)
(* (src/ultron/autonomous/tools.py).  Each action is one call: it records  *)
(* the arguments in fn_call and the value returned in fn_result.  The      *)
(* functions keep no state between calls, so one call is made per          *)
(* behaviour.                                                              *)
(***************************************************************************)
MaxFieldLen == 2
KeyChars == {"a", "b"}
KeyTexts ==
    UNION { [1..n -> KeyChars] : n \in 0..MaxFieldLen } \cup { <<"e-acute">> }

\* str.encode('utf-8'): one byte for an ASCII character, two for U+00E9
Utf8Char(c) ==
    CASE c = "a" -> <<97>>
      [] c = "b" -> <<98>>
      [] OTHER   -> <<195, 169>>

RECURSIVE Utf8(_)
Utf8(text) ==
    IF text = <<>> THEN <<>> ELSE Utf8Char(Head(text)) \o Utf8(Tail(text))

\* an optional argument: None, or a string
NoneArg == [given |-> FALSE, text |-> <<>>]
Str(t) == [given |-> TRUE, text |-> t]
\* "if additional_context:" is false for None and for the empty string
Truthy(opt) == opt.given /\ opt.text # <<>>
OptionalBytes(opt) == IF Truthy(opt) THEN Utf8(opt.text) ELSE <<>>

\* the bytes the hasher has been fed when hexdigest is taken
HashedBytes(a) ==
    Utf8(a.code) \o Utf8(a.language) \o Utf8(a.model_name)
        \o OptionalBytes(a.additional_context)
        \o OptionalBytes(a.frameworks_libraries)
        \o OptionalBytes(a.security_requirements)

\* SHA-256 taken as collision free: the digest stands for the bytes hashed
Sha256HexDigest(bytes) == [sha256_of |-> bytes]

get_cache_key(a) == Sha256HexDigest(HashedBytes(a))

OptionalTexts == { NoneArg, Str(<<>>), Str(<<"a">>) }
KeyInputs ==
    [ code : KeyTexts, language : KeyTexts, model_name : { <<"a">> },
      additional_context : OptionalTexts,
      frameworks_libraries : OptionalTexts,
      security_requirements : { NoneArg, Str(<<"a">>) } ]

CallGetCacheKey(a) ==
    /\ fn_call.name = "none"
    /\ fn_call' = [name |-> "get_cache_key", args |-> a]
    /\ fn_result' = [kind |-> "cache_key", value |-> get_cache_key(a)]
    /\ UNCHANGED <<loop_vars, tool_vars, shell_vars, cache_vars, parse_vars, dd>>

\* ---- find_taints_in_file (tools.py lines 152-188) ----
MaxLines == 2
TaintChars == {"r", "w"}
TaintLines ==
    UNION { [1..n -> TaintChars] : n \in 0..2 } \cup { <<" ", "r">>, <<"w", " ">> }
TaintFiles == UNION { [1..n -> TaintLines] : n \in 0..MaxLines }
SourceLists == { <<>>, << <<"r">> >>, << <<"r", "w">> >>,
                 << <<"r">>, <<"r", "w">> >>, << <<"r", "w">>, <<"r">> >> }
SinkLists == { <<>>, << <<"w">> >>, << <<"r", "w">>, <<"w">> >>,
               << <<"w">>, <<"w", "r">> >> }

\* "keyword in line": the keyword occurs as a substring
KeywordIn(keyword, line) ==
    \E i \in 0..(Len(line) - Len(keyword)) :
        SubSeq(line, i + 1, i + Len(keyword)) = keyword

\* the inner for loop with its break: the hit of the first keyword found in
\* the line, or nothing
FirstHit_EveryKeyword(i, line, keywords) ==
    LET js == { j \in 1..Len(keywords) : KeywordIn(keywords[j], line) }
        F[n \in 0..Len(keywords)] ==
            IF n = 0 THEN <<>>
            ELSE IF n \in js
                 THEN F[n - 1] \o <<[line_no |-> i, keyword |-> keywords[n],
                                     text |-> Strip(line)]>>
                 ELSE F[n - 1]
    IN  F[Len(keywords)]

RECURSIVE FirstHit(_, _, _)
FirstHit(i, line, keywords) ==
    IF keywords = <<>> THEN <<>>
    ELSE IF KeywordIn(Head(keywords), line)
         THEN <<[line_no |-> i, keyword |-> Head(keywords), text |-> Strip(line)]>>
         ELSE FirstHit(i, line, Tail(keywords))

\* the outer loop: found_sources or found_sinks after the first n lines
RECURSIVE Found(_, _, _)
Found(lines, keywords, n) ==
    IF n = 0 THEN <<>>
    ELSE Found(lines, keywords, n - 1) \o FirstHit(n, lines[n], keywords)

\* lines 175-186: one part for the sources, one for the sinks
ResultPart(hits) == [found |-> hits # <<>>, hits |-> hits]

find_taints_in_file(a) ==
    IF ~a.readable THEN [kind |-> "taint_error"]
    ELSE LET found_sources == Found(a.lines, a.sources, Len(a.lines))
             found_sinks == Found(a.lines, a.sinks, Len(a.lines))
         IN  IF found_sources = <<>> /\ found_sinks = <<>>
             THEN [kind |-> "no_matches_hint"]
             ELSE [kind |-> "taint_report",
                   sources_part |-> ResultPart(found_sources),
                   sinks_part |-> ResultPart(found_sinks)]

TaintInputs ==
    [ readable : {TRUE}, lines : TaintFiles, sources : SourceLists,
      sinks : SinkLists ]
    \cup [ readable : {FALSE}, lines : { <<>> }, sources : SourceLists,
           sinks : { <<>> } ]

CallFindTaintsInFile(a) ==
    /\ fn_call.name = "none"
    /\ fn_call' = [name |-> "find_taints_in_file", args |-> a]
    /\ fn_result' = find_taints_in_file(a)
    /\ UNCHANGED <<loop_vars, tool_vars, shell_vars, cache_vars, parse_vars, dd>>

\* ---- search_codebase (tools.py lines 11-49) ----
MAX_MATCHES == 100
MaxDirs == 2

\* a file name or directory name is a sequence of tokens, so that a leading
\* dot can be seen
ExcludedNames == { <<"__pycache__">>, <<"venv">>, <<"node_modules">>, <<".", "git">> }
\* line 28: the directories os.walk does not descend into
Excluded(d) == Head(d) = "." \/ d \in ExcludedNames
\* a directory is walked when no directory on the way to it was pruned
Walked(dir) == \A k \in 1..Len(dir.path) : ~Excluded(dir.path[k])

\* files of the codebase: lines holding "x" match the pattern "x"
HitLines(n) == [i \in 1..n |-> <<" ", "x">>]
EveryOther(n) == [i \in 1..n |-> IF i % 2 = 1 THEN <<"x", "y">> ELSE <<"y">>]
TextFile(name, lines) == [name |-> name, readable |-> TRUE, lines |-> lines]
SearchFileLists ==
    { << [name |-> <<"bin">>, readable |-> FALSE, lines |-> HitLines(1)],
         TextFile(<<"a">>, HitLines(MAX_MATCHES - 1)) >>,
      << TextFile(<<"a">>, HitLines(MAX_MATCHES)) >>,
      << TextFile(<<"a">>, HitLines(MAX_MATCHES + 1)), TextFile(<<"b">>, HitLines(1)) >>,
      << TextFile(<<"a">>, EveryOther(MAX_MATCHES)), TextFile(<<"b">>, EveryOther(MAX_MATCHES)) >> }
RootPath == <<>>
SubdirPaths == { << <<"src">> >>, << <<".", "github">> >>, << <<"venv">>, <<"lib">> >> }
SearchDirs == [ path : {RootPath} \cup SubdirPaths, files : SearchFileLists ]
\* the directories in the order os.walk meets them: the root first, then
\* subdirectories, each once
Codebases ==
    { cb \in UNION { [1..n -> SearchDirs] : n \in 0..MaxDirs } :
        /\ \A n \in 1..Len(cb) : cb[n].path = RootPath <=> n = 1
        /\ \A m, n \in 1..Len(cb) : m # n => cb[m].path # cb[n].path }
\* re.compile succeeds on "x" or "z" and raises re.error on "("
Patterns == { [valid |-> TRUE, literal |-> <<"x">>],
              [valid |-> TRUE, literal |-> <<"z">>],
              [valid |-> FALSE, literal |-> <<"(">>] }

\* pattern.search(line)
PatternSearch(pattern, line) == KeywordIn(pattern.literal, line)

MatchLine(dir, file, i) ==
    [kind |-> "match", path |-> Append(dir.path, file.name), line_no |-> i,
     text |-> Strip(file.lines[i])]
StoppedNotice == [kind |-> "stopped_notice", limit |-> MAX_MATCHES]

\* line 39
ReachedLimit_OnePast(matches) == Len(matches) > MAX_MATCHES
ReachedLimit(matches) == Len(matches) >= MAX_MATCHES

\* the scan's locals: matches, whether line 41 returned, and how many lines
\* and files were read                                              (ghost)
SearchStart ==
    [matches |-> <<>>, returned |-> FALSE, lines_read |-> 0,
     files_opened |-> 0]

\* lines 37-41, with the match appended
Appended(st, matches) ==
    IF ReachedLimit(matches)
    THEN [st EXCEPT !.matches = Append(matches, StoppedNotice), !.returned = TRUE,
                    !.lines_read = @ + 1]
    ELSE [st EXCEPT !.matches = matches, !.lines_read = @ + 1]

\* lines 35-41: one line of a file
ScanLine(st, pattern, dir, file, i) ==
    IF PatternSearch(pattern, file.lines[i])
    THEN Appended(st, Append(st.matches, MatchLine(dir, file, i)))
    ELSE [st EXCEPT !.lines_read = @ + 1]

RECURSIVE ScanLines(_, _, _, _, _)
ScanLines(st, pattern, dir, file, i) ==
    IF st.returned \/ i > Len(file.lines) THEN st
    ELSE ScanLines(ScanLine(st, pattern, dir, file, i), pattern, dir, file, i + 1)

\* lines 30-44: a file that cannot be opened is passed over
ScanFile(st, pattern, dir, file) ==
    IF ~file.readable THEN st
    ELSE ScanLines([st EXCEPT !.files_opened = @ + 1], pattern, dir, file, 1)

RECURSIVE ScanFiles(_, _, _, _)
ScanFiles(st, pattern, dir, j) ==
    IF st.returned \/ j > Len(dir.files) THEN st
    ELSE ScanFiles(ScanFile(st, pattern, dir, dir.files[j]), pattern, dir, j + 1)

\* lines 26-44: os.walk, top down, without the pruned directories
RECURSIVE WalkDirs(_, _, _, _)
WalkDirs(st, pattern, codebase, d) ==
    IF st.returned \/ d > Len(codebase) THEN st
    ELSE IF ~Walked(codebase[d]) THEN WalkDirs(st, pattern, codebase, d + 1)
    ELSE WalkDirs(ScanFiles(st, pattern, codebase[d], 1), pattern, codebase, d + 1)

SearchReturn(st) ==
    IF st.matches = <<>>
    THEN [kind |-> "no_matches_found", lines |-> <<>>,
          lines_read |-> st.lines_read, files_opened |-> st.files_opened]
    ELSE [kind |-> "matches", lines |-> st.matches,
          lines_read |-> st.lines_read, files_opened |-> st.files_opened]

search_codebase(a) ==
    IF ~a.regex_pattern.valid
    THEN [kind |-> "invalid_regex", lines |-> <<>>, lines_read |-> 0, files_opened |-> 0]
    ELSE SearchReturn(WalkDirs(SearchStart, a.regex_pattern, a.codebase, 1))

SearchInputs == [ codebase : Codebases, regex_pattern : Patterns ]

CallSearchCodebase(a) ==
    /\ fn_call.name = "none"
    /\ fn_call' = [name |-> "search_codebase", args |-> a]
    /\ fn_result' = search_codebase(a)
    /\ UNCHANGED <<loop_vars, tool_vars, shell_vars, cache_vars, parse_vars, dd>>

FunNext ==
    \/ \E a \in KeyInputs : CallGetCacheKey(a)
    \/ \E a \in TaintInputs : CallFindTaintsInFile(a)
    \/ \E a \in SearchInputs : CallSearchCodebase(a)

FunSpec == ToolInit /\ [][FunNext]_vars

(***************************************************************************)
(* DeepDiveAgent.run (src/ultron/agent.py lines 103-177).  dd holds the    *)
(* loop's locals: the step, the response in hand, and counts of the        *)
(* messages sent, the tool functions called and the responses looked at.   *)
(***************************************************************************)
MaxSteps == 3

\* what chat.send_message gives: a response whose first part is a function
\* call or a text, a response without candidate or part, or an exception
DeepToolNames == {"read_file_content", "find_string_in_project", "run_shell"}
DeepArgs == { {"file_path"}, {"search_term"}, {} }
DeepCalls ==
    [ kind : {"function_call"}, name : DeepToolNames, args : DeepArgs,
      has_args : {TRUE} ]
    \cup { [kind |-> "function_call", name |-> "read_file_content", args |-> {},
            has_args |-> FALSE] }
\* a final text: a vulnerability as JSON in a code fence, as bare JSON,
\* prose, a JSON list, a JSON object that is no vulnerability, or no text
FinalTexts ==
    {"fenced_vulnerability", "bare_vulnerability", "prose", "json_list",
     "other_object", "no_text"}
DeepReplies ==
    DeepCalls \cup [ kind : {"text"}, text : FinalTexts ]
        \cup { [kind |-> "no_candidate"], [kind |-> "send_message_raised"] }

\* lines 138-143: the parameters of the tool named, if it is one of the two
DeepToolParams(name) ==
    CASE name = "read_file_content" -> {"file_path"}
      [] name = "find_string_in_project" -> {"search_term"}
      [] OTHER -> {}
IsDeepTool(name) == name \in {"read_file_content", "find_string_in_project"}

\* lines 136-143: "raised" when reading the arguments or binding them fails
DeepDispatch(call) ==
    IF ~call.has_args THEN "raised"
    ELSE IF ~IsDeepTool(call.name) THEN "unknown_tool"
    ELSE IF Binds(call.args, DeepToolParams(call.name), DeepToolParams(call.name))
         THEN "called"
         ELSE "raised"

\* lines 153-171
FinalAnswer(text) ==
    IF text \in {"fenced_vulnerability", "bare_vulnerability"}
    THEN [kind |-> "vulnerability", analysis_source |-> "deep_dive_agent"]
    ELSE NoneVal

\* line 130, with one step more
StepsLeft_OneMore(step, max_steps) == step <= max_steps

\* line 130: range(max_steps)
StepsLeft(step, max_steps) == step < max_steps

\* lines 168-171 and 175-177: run returns, None unless a value is given
DeepReturn(value, caught) ==
    dd' = [dd EXCEPT !.pc = "returned", !.returned = value, !.caught = caught]

\* a message was sent and r came back: lines 128 and 145-149
Sent(d, r) ==
    IF r.kind = "send_message_raised"
    THEN [d EXCEPT !.sent = @ + 1, !.pc = "returned", !.returned = NoneVal,
                   !.caught = "Exception"]
    ELSE [d EXCEPT !.sent = @ + 1, !.pc = "loop", !.response = r]

\* lines 109-128
DeepStart(n, r) ==
    /\ dd.pc = "idle"
    /\ dd' = Sent([dd EXCEPT !.max_steps = n], r)
    /\ UNCHANGED <<loop_vars, tool_vars, shell_vars, cache_vars, parse_vars,
                   fn_call, fn_result>>

Inspected(d, is_call) ==
    [d EXCEPT !.inspected = @ + 1, !.step = @ + 1,
              !.all_calls = (@ /\ is_call)]

\* lines 133-149: a function call is dispatched and its result sent
DeepToolStep(d, call, r) ==
    IF DeepDispatch(call) = "raised"
    THEN [d EXCEPT !.pc = "returned", !.returned = NoneVal, !.caught = "Exception"]
    ELSE Sent([d EXCEPT !.dispatched =
                            IF DeepDispatch(call) = "called" THEN @ + 1 ELSE @], r)

\* lines 130-171: one pass of the loop body on the response in hand
DeepStep(r) ==
    /\ dd.pc = "loop"
    /\ StepsLeft(dd.step, dd.max_steps)
    /\ dd' = (CASE dd.response.kind = "no_candidate" ->
                     [Inspected(dd, FALSE) EXCEPT !.pc = "returned",
                         !.returned = NoneVal, !.caught = "Exception"]
                [] dd.response.kind = "function_call" ->
                     DeepToolStep(Inspected(dd, TRUE), dd.response, r)
                [] OTHER ->
                     [Inspected(dd, FALSE) EXCEPT !.pc = "returned",
                         !.returned = FinalAnswer(dd.response.text),
                         !.caught = IF FinalAnswer(dd.response.text) = NoneVal
                                    THEN "JSONDecodeError, TypeError, ValueError, AttributeError"
                                    ELSE "none"])
    /\ UNCHANGED <<loop_vars, tool_vars, shell_vars, cache_vars, parse_vars,
                   fn_call, fn_result>>

\* lines 173-174: the loop is over, the response in hand is not looked at
DeepMaxSteps ==
    /\ dd.pc = "loop"
    /\ ~StepsLeft(dd.step, dd.max_steps)
    /\ DeepReturn(NoneVal, "none")
    /\ UNCHANGED <<loop_vars, tool_vars, shell_vars, cache_vars, parse_vars,
                   fn_call, fn_result>>

DeepNext ==
    \/ \E n \in 0..MaxSteps, r \in DeepReplies : DeepStart(n, r)
    \/ \E r \in DeepReplies : DeepStep(r)
    \/ DeepMaxSteps

\* run is straight-line code around blocking calls: it takes its next step
DeepSpec == ToolInit /\ [][DeepNext]_vars /\ WF_dd(DeepNext)

(***************************************************************************)
(* Properties of the path resolver and the file tools (ToolSpec).          *)
(***************************************************************************)
CalledPath == invoked[1].args.file_path
Opens == { i \in 1..Len(fs_log) : fs_log[i].op = "open" }

\* C4: whenever _resolve_and_validate_path returns a usable path, that path
\* is the project root or below it, and a canonical path outside the root is
\* rejected as a traversal attempt.
ResolvedPathInsideRoot ==
    pc = "TOOL_CALLED" =>
        /\ resolution.status = "ok" => IsPrefixPath(codebase_path, resolution.path)
        /\ ( /\ IsStr(CalledPath)
             /\ ~HasSegment(CalledPath.segs, "..")
             /\ ~CalledPath.abs
             /\ ~IsPrefixPath(codebase_path,
                              Realpath(codebase_path, PathParts(CalledPath))) )
           => ( /\ resolution.status = "error"
                /\ resolution.error.kind = "traversal_attempt" )

\* C5: an input with a '..' segment or in absolute form gets the violation
\* error, and no filesystem operation is made before it is returned.
EarlyRejectNoFsAccess ==
    ( /\ pc = "TOOL_CALLED"
      /\ IsStr(CalledPath)
      /\ (HasSegment(CalledPath.segs, "..") \/ CalledPath.abs) )
    => /\ resolution.status = "error"
       /\ resolution.error.kind = "traversal_or_absolute"
       /\ tool_outcome.status = "returned"
       /\ tool_outcome.result = resolution.error
       /\ fs_log = <<>>

EarlyRejectWitness ==
    /\ pc = "TOOL_CALLED"
    /\ CalledPath = PathVal(FALSE, <<"src", "..">>)
    /\ resolution.error.kind = "traversal_or_absolute"
    /\ fs_log = <<>>

\* C6: a file tool whose path resolution reports an error returns that error
\* and opens no file; a file is only ever opened at the path the resolver
\* returned as valid.
NoIoWithoutValidPath ==
    pc = "TOOL_CALLED" =>
        /\ resolution.status = "error" =>
              /\ tool_outcome.status = "returned"
              /\ tool_outcome.result = resolution.error
              /\ Opens = {}
        /\ \A i \in Opens :
              /\ resolution.status = "ok"
              /\ fs_log[i].path = resolution.path

NoIoWitness ==
    /\ pc = "TOOL_CALLED"
    /\ invoked[1].name = "read_file_content"
    /\ resolution.status = "error"
    /\ resolution.error.kind = "traversal_attempt"
    /\ tool_outcome.result = resolution.error
    /\ Opens = {}

(***************************************************************************)
(* Properties of AutonomousAgent.run (Spec).                               *)
(***************************************************************************)
Running == pc \in {"AWAITING_MODEL", "TOOL_DISPATCH"}
Ended == pc \in {"TERMINATED", "RAISED"}
LastReplied == last_response.kind = "reply"
LastEntry == chat_history[Len(chat_history)]
CallIndexes(ps) == { i \in 1..Len(ps) : ps[i].kind = "call" }
FirstCall(ps) == ps[CHOOSE i \in CallIndexes(ps) : \A j \in CallIndexes(ps) : i <= j]

\* C1: with max_turns = N and every reply holding a tool call, run ends
\* after exactly N model requests and N tool dispatches and returns the
\* max-turns text.
ExactlyMaxTurnsOfToolCalls ==
    (Ended /\ only_calls) =>
        /\ pc = "TERMINATED"
        /\ requests = max_turns
        /\ dispatches = max_turns
        /\ returned = MaxTurnsReport

\* a text segment is non-empty when it holds something besides blanks
NonBlank(x) == \E i \in 1..Len(x) : x[i] # " "
TextIndexes(ps) == { i \in 1..Len(ps) : ps[i].kind = "text" /\ NonBlank(ps[i].text) }
LastTextSegment(ps) ==
    ps[CHOOSE i \in TextIndexes(ps) : \A j \in TextIndexes(ps) : j <= i].text

\* C2: a reply without a tool call ends the session in that turn: run has
\* returned, nothing further can happen, no handler ran, and the report is
\* the last non-empty text segment of the reply (its surrounding blanks
\* removed).
NoToolCallReplyIsTerminal ==
    (LastReplied /\ CallIndexes(last_response.parts) = {}) =>
        /\ pc = "TERMINATED"
        /\ ~ENABLED Next
        /\ requests = turn
        /\ dispatches = turn - 1
        /\ invoked = <<>>
        /\ TextIndexes(last_response.parts) # {} =>
              returned = TextReport(Strip(LastTextSegment(last_response.parts)))

SeveralFragmentsWitness ==
    /\ pc = "TERMINATED"
    /\ last_response = Reply(<<TextPart(<<"a">>), TextPart(<<" ", "b", " ">>)>>)
    /\ returned = TextReport(<<"b">>)
    /\ turn = 2

\* C3: at most one tool call is pending, and whenever a model request can be
\* issued every tool call of the history is followed by its observation:
\* the history is the prompt and then pairs of a model turn holding a tool
\* call and the tool turn answering that call.
PairedAt(i) ==
    /\ chat_history[i].role = "model"
    /\ CallIndexes(chat_history[i].parts) # {}
    /\ chat_history[i + 1].role = "tool"
    /\ chat_history[i + 1].parts[1].name = FirstCall(chat_history[i].parts).name

AtMostOnePendingToolCall ==
    Running =>
        /\ chat_history[1].role = "user"
        /\ Len(chat_history) = 1 + 2 * dispatches
        /\ \A k \in 1..dispatches : PairedAt(2 * k)
        /\ pc = "AWAITING_MODEL" => (pending = NoCall /\ requests = dispatches)
        /\ pc = "TOOL_DISPATCH" => (pending.kind = "call" /\ requests = dispatches + 1)

AlternationWitness ==
    /\ pc = "TOOL_DISPATCH"
    /\ Len(chat_history) = 3
    /\ requests = 2

WronglyTyped(call) ==
    \E i \in 1..Len(call.args) :
        \/ call.args[i][1] = "file_path" /\ ~IsStr(call.args[i][2])
        \/ call.args[i][1] = "regex_pattern" /\ ~IsStr(call.args[i][2])
        \/ call.args[i][1] \in {"sources", "sinks"} /\ call.args[i][2].t # "list"
Malformed(call) ==
    /\ call.name \in ToolNames
    /\ \/ Keys(call.args) # Params(call.name)
       \/ WronglyTyped(call)

\* C8: a malformed call of a registered tool ends as an error observation
\* appended to the history, the loop goes on, and run never raises.
MalformedCallBecomesObservation ==
    ( /\ LastReplied
      /\ CallIndexes(last_response.parts) # {}
      /\ Malformed(FirstCall(last_response.parts))
      /\ pc # "TOOL_DISPATCH" )
    => /\ pc # "RAISED"
       /\ exception = "none"
       /\ Len(chat_history) = 1 + 2 * turn
       /\ LastEntry.role = "tool"
       /\ LastEntry.parts[1].name = FirstCall(last_response.parts).name

\* C9: a backend failure (no candidate, or a candidate without content) ends
\* the session with an explicit failure report returned to the caller; run
\* does not raise.
BackendFailureEndsWithReport ==
    last_response.kind \in {"empty_candidates", "blocked_content"} =>
        /\ pc = "TERMINATED"
        /\ exception = "none"
        /\ returned # NoneVal
        /\ requests = turn

\* C10: for a reply holding several tool-call parts exactly one dispatch is
\* made, of the first tool-call part, and exactly one tool observation is
\* appended for the reply.
OnlyFirstToolCallHonoured ==
    ( /\ LastReplied
      /\ Cardinality(CallIndexes(last_response.parts)) > 1
      /\ pc # "TOOL_DISPATCH" )
    => /\ Len(invoked) <= 1
       /\ invoked # <<>> =>
             /\ invoked[1].name = FirstCall(last_response.parts).name
             /\ invoked[1].args = Bind(FirstCall(last_response.parts).args)
       /\ ( /\ FirstCall(last_response.parts).name \in ToolNames
            /\ Keys(FirstCall(last_response.parts).args)
                  = Params(FirstCall(last_response.parts).name) )
          => Len(invoked) = 1
       /\ Len(chat_history) = 1 + 2 * turn
       /\ chat_history[Len(chat_history) - 1] = ModelContent(last_response.parts)
       /\ LastEntry.role = "tool"
       /\ LastEntry.parts[1].name = FirstCall(last_response.parts).name

(***************************************************************************)
(* Properties of execute_shell_command (ShellSpec).                        *)
(***************************************************************************)
IsExitCodeToken(t) == \E rc \in -9..255 : t = "Exit Code: " \o ToString(rc)
Mentions(text, tokens) == \E i \in 1..Len(text) : text[i] \in tokens
HasExitCodeLine(text) == \E i \in 1..Len(text) : IsExitCodeToken(text[i])
ShellReturned == sh_pc = "RETURNED"
ShellCompleted == ShellReturned /\ ~sh_timed_out /\ sh_spawned # {}

\* C11: when the command outlives the timeout the tool returns a timed-out
\* text that holds no exit-code line and no stdout or stderr block; from the
\* expiry on, the tool's next step never has to wait for the command's
\* descendants, and the call ends by returning a text, not by raising.
TimedOutCallReturnsErrorText ==
    /\ (sh_timed_out /\ ShellReturned) =>
          /\ sh_result # <<>>
          /\ ~HasExitCodeLine(sh_result)
          /\ ~Mentions(sh_result, {StdoutHeader, StderrHeader})
    /\ (sh_timed_out /\ ~ShellReturned) => ENABLED (KillShell \/ ReturnTimedOut)

\* a timed-out call that returned while descendants still hold the pipes
TimedOutWitness ==
    /\ sh_timed_out
    /\ ShellReturned
    /\ sh_result = TimeoutText
    /\ "grandchild" \in sh_procs

\* C12: once a timed-out call has returned, no process that the command
\* started is still running.
NoProcessSurvivesTimeout ==
    (sh_timed_out /\ ShellReturned) => sh_procs = {}

\* C13: the text returned for a completed command is, leaving line breaks
\* and blanks aside, the exit-code line, then the stdout marker and output
\* iff stdout is non-empty, then the stderr marker and output iff stderr is
\* non-empty, then the crash flag iff stderr holds a crash signature, and
\* nothing else.
NonWs(x) == SelectSeq(x, LAMBDA t : t \notin Whitespace)
ExpectedPieces(r) ==
    <<"Exit Code: " \o ToString(r.returncode)>>
    \o (IF r.stdout # <<>> THEN <<StdoutHeader>> \o NonWs(r.stdout) ELSE <<>>)
    \o (IF r.stderr # <<>> THEN <<StderrHeader>> \o NonWs(r.stderr) ELSE <<>>)
    \o (IF Mentions(r.stderr, CrashSignatures) THEN <<CrashFlag>> ELSE <<>>)
CompletedOutputLayout ==
    ShellCompleted =>
        /\ NonWs(sh_result) = ExpectedPieces(sh_call.command)
        /\ sh_result[1] = "Exit Code: " \o ToString(sh_call.command.returncode)

\* a completed command with output on both streams and a crash signature
CompletedOutputWitness ==
    /\ ShellCompleted
    /\ sh_call.command.stdout = <<"x", "\n">>
    /\ sh_call.command.stderr = <<"Segmentation fault", "\n">>
    /\ Mentions(sh_result, {CrashFlag})

\* C14: a process is only ever started when the working directory is the
\* sandbox root or a directory inside it.
ShellRunsOnlyInsideRoot ==
    sh_spawned # {} => IsPrefixPath(codebase_path, sh_call.cwd)

(***************************************************************************)
(* Properties of the result cache (CacheSpec, CacheRaceSpec).              *)
(***************************************************************************)
Ran(s, op) == sess[s].op = op /\ sess[s].pc \in {"done", "raised"}
Age(s) == sess[s].at - sess[s].before.mtime

\* C15: save_to_cache of a payload whose error is set leaves the cache as it
\* was (so a later load finds what it would have found before).
ErrorPayloadIsNotStored ==
    \A s \in Sessions :
        (Ran(s, "save") /\ sess[s].payload.error # "None") =>
            sess[s].after = sess[s].before

ExpiryFollowsWallClock ==
    \A s \in Sessions : \A rd \in ReviewDatas :
        (Ran(s, "load") /\ sess[s].before.exists
            /\ sess[s].before.content = JsonDump(rd)) =>
            /\ Age(s) > CACHE_EXPIRY_SECONDS =>
                  (sess[s].result = NoneResult /\ ~sess[s].after.exists)
            /\ Age(s) < CACHE_EXPIRY_SECONDS =>
                  sess[s].result = DataResult(rd)

\* C18: with two sessions on one fingerprint, no load reads a file that a
\* save has open, no load unlinks a file that a save has open, and once both
\* calls are over and one of them was a save, the file holds the complete
\* payload of one of the saves.
Savers == { s \in Sessions : sess[s].op = "save" }
ConcurrentAccessIsSafe ==
    /\ ~saw_partial
    /\ ~deleted_midwrite
    /\ ((\A s \in Sessions : sess[s].pc \in {"done", "raised"}) /\ Savers # {}) =>
          /\ cache_dir # 0
          /\ \E s \in Savers : inodes[cache_dir].content = JsonDump(sess[s].payload)

(***************************************************************************)
(* Properties of the single-shot parse path (ParseSpec).                   *)
(***************************************************************************)
ParseReturned == pr_pc = "returned"
IsPrefixOf(p, d) == Len(p) <= Len(d) /\ SubSeq(d, 1, Len(p)) = p

CutInsideStringValue(raw) ==
    /\ \E d \in CompleteOutputs : IsJson(d) /\ IsObject(d) /\ IsPrefixOf(raw, d)
    /\ JsonScan(raw, 1, JsonStart).mode \in {"string_val", "val_esc"}
RepairedTextIsValidJson ==
    (cleanings > 0 /\ CutInsideStringValue(raw_json_text)) => IsJson(cleaned_json)

\* C21: the repair is idempotent: repairing the text that
\* clean_json_response returned gives that text again.
RepairIsIdempotent ==
    cleanings > 0 => clean_json_response(cleaned_json) = cleaned_json

\* C22: when the repaired text is still no JSON, the result is a stub whose
\* error field holds a diagnostic message and which keeps the raw response
\* text for audit; the call returns, it does not raise.
FallbackKeepsRawText ==
    (ParseReturned /\ cleanings > 0 /\ ~IsJson(cleaned_json)) =>
        /\ review.kind = "error"
        /\ review.error # "None"
        /\ review.audit = raw_json_text

\* C30: when the scan ends inside a string and a field boundary was seen,
\* the text is cut at a comma between two fields of the top-level object
\* (never at a comma between the elements of a nested array), and the
\* result is the text before that comma, closed by one brace: the fields
\* kept have the values they had in the input.
Prepared(raw) == CloseTrailingValue(WithOpeningBrace(StripWs(raw)))
FinalScan(raw) == ScanText(Prepared(raw), 1, ScanStart)
CutAtFieldBoundary(raw) ==
    FinalScan(raw).in_string /\ FinalScan(raw).last_complete_field > 0
KeptFields(raw) == Take(Prepared(raw), FinalScan(raw).last_complete_field)
CutKeepsWholeFields ==
    (cleanings > 0 /\ CutAtFieldBoundary(raw_json_text)) =>
        /\ JsonScan(KeptFields(raw_json_text), 1, JsonStart).stack = <<"{">>
        /\ cleaned_json = KeptFields(raw_json_text) \o <<"}">>
        /\ IsJson(cleaned_json)

(***************************************************************************)
(* Further properties of the path resolver and the file tools (ToolSpec).  *)
(***************************************************************************)
CalledReal == Realpath(codebase_path, PathParts(CalledPath))
PassedEarlyCheck ==
    pc = "TOOL_CALLED" /\ IsStr(CalledPath) /\ ~EarlyReject(CalledPath)
IsSortedListing(c, S) ==
    /\ { c[i] : i \in 1..Len(c) } = S
    /\ \A i, j \in 1..Len(c) : i < j => LexLess(NameChars(c[i]), NameChars(c[j]))

RECURSIVE NearestExisting(_)
NearestExisting(p) == IF p \in FsDirs THEN p ELSE NearestExisting(Parent(p))

MissingFileReportsNearestAncestor ==
    ( /\ PassedEarlyCheck
      /\ IsPrefixPath(codebase_path, CalledReal)
      /\ CalledReal \notin FsDirs \cup FsFiles )
    => /\ tool_outcome.status = "returned"
       /\ tool_outcome.result.kind = "not_found"
       /\ tool_outcome.result.contents =
             ContentsStr(DirEntries(NearestExisting(CalledReal)))

\* C25: whatever the length of the file, the observation of a read-file
\* tool call holds at most a fixed maximum number of characters of it.
ReadIsSizeCapped ==
    ( /\ pc \in {"TOOL_CALLED", "DEEP_DIVE_TOOL_CALLED"}
      /\ tool_outcome.status = "returned"
      /\ tool_outcome.result.kind = "file_content" )
    => tool_outcome.result.chars <= MaxReadChars

(***************************************************************************)
(* Further properties of execute_shell_command (ShellSpec).                *)
(***************************************************************************)
\* C29: the returned text carries the crash annotation exactly when the
\* captured stderr holds one of the three crash markers; a marker that is
\* only in stdout, or an exit code other than 0, does not add it, and a
\* call that captured nothing (timed out, or never started) has none.
CrashFlagFollowsStderr ==
    /\ ShellCompleted =>
          ( Mentions(sh_result, {CrashFlag})
              <=> Mentions(sh_call.command.stderr,
                           {"AddressSanitizer", "Segmentation fault", "panic:"}) )
    /\ (ShellReturned /\ ~ShellCompleted) => ~Mentions(sh_result, {CrashFlag})

MarkerInStdoutOnlyWitness ==
    /\ ShellCompleted
    /\ sh_call.command.stdout = <<"AddressSanitizer">>
    /\ sh_call.command.stderr = <<"e">>
    /\ sh_call.command.returncode = 1
    /\ ~Mentions(sh_result, {CrashFlag})

(***************************************************************************)
(* Further properties of AutonomousAgent.run (Spec).                       *)
(***************************************************************************)
\* C26: a turn whose reply holds a tool call appends exactly two entries to
\* the history, the model's content and then the tool observation, and
\* changes no earlier entry; a turn that ends the session appends nothing;
\* so the history sent with the k-th request is the prompt followed by k-1
\* pairs of a tool call and its observation.
HistoryGrowsByPairs ==
    [][ /\ pc = "TOOL_DISPATCH" =>
              chat_history' =
                 chat_history \o
                 <<ModelContent(last_response.parts),
                   ToolContent(pending.name, tool_outcome'.result)>>
        /\ pc = "AWAITING_MODEL" =>
              /\ chat_history' = chat_history
              /\ chat_history[1] = UserContent
              /\ Len(chat_history) = 1 + 2 * requests
              /\ \A k \in 1..requests : PairedAt(2 * k) ]_vars

\* a reply that holds reasoning text beside a tool call
MixedReply(ps) == CallIndexes(ps) # {} /\ TextIndexes(ps) # {}

MaxTurnsText ==
    <<"Agent reached maximum turns without providing a final report.">>

WellFormedParts ==
    { TextPart(x) : x \in ReplyTexts \cup {MaxTurnsText} }
        \cup { c \in ReplyCalls : ~Malformed(c) }

WellFormedReplies == SeqsUpTo(WellFormedParts, MaxParts)

LiveNext ==
    \/ \E ps \in WellFormedReplies : ReceiveToolCall(ps)
    \/ \E ps \in WellFormedReplies : ReceiveFinal(ps)
    \/ DispatchTool
    \/ Exhausted

LoopMoves ==
    /\ Running
    /\ pc' \in {"AWAITING_MODEL", "TOOL_DISPATCH", "TERMINATED", "RAISED"}
    /\ pc' # pc

LoopCanMove == Running => ENABLED LiveNext

LiveSpec == Init /\ [][LiveNext]_vars /\ WF_pc(LoopMoves)

\* the string that run returns: the text of a report, or the fixed words
ReportString(r) == IF r.kind = "text" THEN r.text ELSE <<r.kind>>

EveryReplyHeldACall == only_calls /\ requests = max_turns

WithinMaxTurnsWithReport ==
    /\ Ended => pc = "TERMINATED"
    /\ requests <= max_turns
    /\ pc = "TERMINATED" =>
          /\ returned # NoneVal
          /\ ReportString(returned) # <<>>

KeyCalled == fn_call.name = "get_cache_key"

\* C36: get_cache_key separates its inputs: two argument tuples that differ
\* in any field (characters moved between adjacent fields, an absent
\* optional field against an empty one) never get the same fingerprint.
CacheKeySeparatesInputs ==
    KeyCalled =>
        \A other \in KeyInputs :
            other # fn_call.args => get_cache_key(other) # fn_result.value

TaintsCalled == fn_call.name = "find_taints_in_file"
LinesWith(keywords) ==
    { i \in 1..Len(fn_call.args.lines) :
        \E j \in 1..Len(keywords) : KeywordIn(keywords[j], fn_call.args.lines[i]) }

\* the hits are one per line holding a keyword, in line order, each naming
\* the first keyword of the list that the line holds and the stripped line
OneHitPerLine(hits, keywords) ==
    /\ \A m, n \in 1..Len(hits) : m < n => hits[m].line_no < hits[n].line_no
    /\ { hits[m].line_no : m \in 1..Len(hits) } = LinesWith(keywords)
    /\ \A m \in 1..Len(hits) :
        LET line == fn_call.args.lines[hits[m].line_no]
        IN  /\ hits[m].text = Strip(line)
            /\ \E j \in 1..Len(keywords) :
                /\ keywords[j] = hits[m].keyword
                /\ KeywordIn(keywords[j], line)
                /\ \A k \in 1..(j - 1) : ~KeywordIn(keywords[k], line)

\* C39: find_taints_in_file reports source hits and sink hits separately,
\* each line giving at most one source hit and at most one sink hit (for the
\* first keyword in list order that the line holds), and it returns the
\* "no matches found" hint exactly when the file was scanned and both hit
\* lists are empty.
TaintHitsAreFirstMatchPerLine ==
    (TaintsCalled /\ fn_call.args.readable) =>
        /\ fn_result.kind \in {"no_matches_hint", "taint_report"}
        /\ fn_result.kind = "no_matches_hint"
            <=> (LinesWith(fn_call.args.sources) = {}
                    /\ LinesWith(fn_call.args.sinks) = {})
        /\ fn_result.kind = "taint_report" =>
            /\ OneHitPerLine(fn_result.sources_part.hits, fn_call.args.sources)
            /\ OneHitPerLine(fn_result.sinks_part.hits, fn_call.args.sinks)
            /\ fn_result.sources_part.found
                <=> LinesWith(fn_call.args.sources) # {}
            /\ fn_result.sinks_part.found
                <=> LinesWith(fn_call.args.sinks) # {}

\* a line holding two source keywords and a sink keyword gave one hit each
TwoKeywordLineWitness ==
    /\ TaintsCalled
    /\ fn_call.args.lines = << <<"r", "w">> >>
    /\ fn_call.args.sources = << <<"r", "w">>, <<"r">> >>
    /\ fn_call.args.sinks = << <<"w">>, <<"w", "r">> >>
    /\ Len(fn_result.sources_part.hits) = 1
    /\ fn_result.sources_part.hits[1].keyword = <<"r", "w">>
    /\ Len(fn_result.sinks_part.hits) = 1

SearchCalled == fn_call.name = "search_codebase" /\ fn_call.args.regex_pattern.valid
MatchLines == { n \in 1..Len(fn_result.lines) : fn_result.lines[n].kind = "match" }
Notices == { n \in 1..Len(fn_result.lines) : fn_result.lines[n].kind = "stopped_notice" }

\* the lines of the codebase in the order the walk meets them, as
\* <<directory, file, line>> positions
ScanOrder ==
    LET cb == fn_call.args.codebase
    IN  { <<d, j, i>> \in (1..Len(cb)) \X (1..2) \X (1..(MAX_MATCHES + 1)) :
            /\ Walked(cb[d])
            /\ j <= Len(cb[d].files)
            /\ cb[d].files[j].readable
            /\ i <= Len(cb[d].files[j].lines) }
Before(p, q) ==
    \/ p[1] < q[1]
    \/ p[1] = q[1] /\ p[2] < q[2]
    \/ p[1] = q[1] /\ p[2] = q[2] /\ p[3] <= q[3]
HitsIn(S) ==
    { p \in S : PatternSearch(fn_call.args.regex_pattern,
                              fn_call.args.codebase[p[1]].files[p[2]].lines[p[3]]) }
\* the positions up to and including p
UpTo(p) == { q \in ScanOrder : Before(q, p) }

\* C33: search_codebase never returns more than MAX_MATCHES match lines: at
\* the MAX_MATCHES-th match it stops, having read no line after that match
\* and opened no later file, and ends the result with one notice; with
\* fewer matches it reads every line and gives no notice.
SearchStopsAtMaxMatches ==
    SearchCalled =>
        /\ Cardinality(MatchLines) <= MAX_MATCHES
        /\ Cardinality(Notices) <= 1
        /\ IF Cardinality(HitsIn(ScanOrder)) < MAX_MATCHES
           THEN /\ Notices = {}
                /\ Cardinality(MatchLines) = Cardinality(HitsIn(ScanOrder))
                /\ fn_result.lines_read = Cardinality(ScanOrder)
           ELSE /\ Notices = { Len(fn_result.lines) }
                /\ MatchLines = 1..MAX_MATCHES
                /\ \E p \in HitsIn(ScanOrder) :
                    /\ Cardinality(HitsIn(UpTo(p))) = MAX_MATCHES
                    /\ fn_result.lines_read = Cardinality(UpTo(p))
                    /\ fn_result.files_opened =
                        Cardinality({ <<q[1], q[2]>> : q \in UpTo(p) })

\* the search stopped at the MAX_MATCHES-th match with lines and a file
\* still unread
StoppedEarlyWitness ==
    /\ SearchCalled
    /\ Notices # {}
    /\ Cardinality(MatchLines) = MAX_MATCHES
    /\ fn_result.lines_read < Cardinality(ScanOrder)
    /\ fn_result.files_opened < Cardinality({ <<q[1], q[2]>> : q \in ScanOrder })

\* the brackets and braces open at the end of a text, outermost first,
\* strings skipped; ok is FALSE once a closer met no matching opener
NestStart == [stack |-> <<>>, in_string |-> FALSE, escape_next |-> FALSE, ok |-> TRUE]
Closes(closer, opener) ==
    (closer = "}" /\ opener = "{") \/ (closer = "]" /\ opener = "[")
NestClose(st, c) ==
    IF st.stack # <<>> /\ Closes(c, st.stack[Len(st.stack)])
    THEN [st EXCEPT !.stack = SubSeq(@, 1, Len(@) - 1)]
    ELSE [st EXCEPT !.ok = FALSE]
NestChar(st, c) ==
    IF st.escape_next THEN [st EXCEPT !.escape_next = FALSE]
    ELSE IF c = BS THEN [st EXCEPT !.escape_next = TRUE]
    ELSE IF c = Q THEN [st EXCEPT !.in_string = ~@]
    ELSE IF st.in_string THEN st
    ELSE IF c \in {"{", "["} THEN [st EXCEPT !.stack = Append(@, c)]
    ELSE IF c \in {"}", "]"} THEN NestClose(st, c)
    ELSE st
RECURSIVE Nesting(_, _, _)
Nesting(text, k, st) ==
    IF k > Len(text) THEN st ELSE Nesting(text, k + 1, NestChar(st, text[k]))
WellNested(text) ==
    Nesting(text, 1, NestStart).ok /\ Nesting(text, 1, NestStart).stack = <<>>
CutOutsideString(raw) == ~Nesting(raw, 1, NestStart).in_string

\* C37: for every input cut short outside a string, the closers that
\* clean_json_response appends close the open brackets and braces innermost
\* first: the repaired text is well nested.
ClosersMatchOpenersInReverse ==
    (cleanings > 0 /\ CutOutsideString(raw_json_text)) => WellNested(cleaned_json)

\* a text split into the characters inside its string literals and the
\* characters outside them (the quotes included)
SplitStart ==
    [in_string |-> FALSE, escape_next |-> FALSE, inside |-> <<>>, outside |-> <<>>]
SplitKeep(st, c) ==
    IF st.in_string THEN [st EXCEPT !.inside = Append(@, c)]
    ELSE [st EXCEPT !.outside = Append(@, c)]
SplitChar(st, c) ==
    IF st.escape_next THEN [SplitKeep(st, c) EXCEPT !.escape_next = FALSE]
    ELSE IF c = BS THEN [SplitKeep(st, c) EXCEPT !.escape_next = TRUE]
    ELSE IF c = Q THEN [st EXCEPT !.in_string = ~@, !.outside = Append(@, c)]
    ELSE SplitKeep(st, c)
RECURSIVE Split(_, _, _)
Split(text, k, st) ==
    IF k > Len(text) THEN st ELSE Split(text, k + 1, SplitChar(st, text[k]))
InsideStrings(text) == Split(text, 1, SplitStart).inside
OutsideStrings(text) == Split(text, 1, SplitStart).outside
OpenAtEnd(text, opener) == Count(Nesting(text, 1, NestStart).stack, opener)
\* the closers of one kind that the repair added outside strings
ClosersAdded(before, after, closer) ==
    Count(OutsideStrings(after), closer) - Count(OutsideStrings(before), closer)
StringsUntouched(before, after) ==
    /\ ClosersAdded(before, after, "}") = OpenAtEnd(before, "{")
    /\ ClosersAdded(before, after, "]") = OpenAtEnd(before, "[")
    /\ InsideStrings(after) = InsideStrings(before)

\* C38: characters inside string literals never steer the repair: for an
\* input whose strings are all complete, the closers appended are as many
\* as the braces and brackets open outside strings, and the contents of the
\* strings are the same after the repair as before it.
StringContentsDoNotSteerRepair ==
    (cleanings > 0 /\ CutOutsideString(raw_json_text)) =>
        StringsUntouched(Prepared(raw_json_text), cleaned_json)

\* the ways the backend call can fail, and the message each gives
BackendFailed ==
    backend \in {"no_client", "no_candidates", "blocked"} \cup BackendCauses
EmptyText == backend = "text" /\ StripWs(raw_json_text) = <<>>
\* the text is JSON, but no mapping that BatchReviewData accepts
FailsSchema ==
    \/ IsJson(raw_json_text) /\ ~IsObject(JsonLoads(raw_json_text).value)
    \/ cleanings > 0 /\ IsJson(cleaned_json)
        /\ ~IsObject(JsonLoads(cleaned_json).value)
IsErrorDocument(r) == r.kind = "error" /\ r.error \notin {"None", ""}

FoundStored(s, rd) ==
    sess[s].before.exists /\ sess[s].before.content = JsonDump(rd)

DeepReturned == dd.pc = "returned"
DeepWithinBounds ==
    /\ dd.dispatched <= dd.max_steps
    /\ dd.sent <= dd.max_steps + 1
    /\ dd.inspected <= dd.max_steps
    /\ dd.pc \in {"idle", "loop", "returned"}
    /\ (DeepReturned /\ dd.caught # "none") => dd.returned = NoneVal
    /\ (DeepReturned /\ dd.all_calls) => dd.returned = NoneVal

====
